---- MODULE Spec2Model ----
(***************************************************************************)
(* Model of the watercontroller firmware: its device I/O drivers and the   *)
(* network wait and display update of its main program.                    *)
(*                                                                         *)
(* Part 1: the Sharp LS027B7DH01 memory LCD driver (src/src/ls027b7dh01.rs)*)
(* with the panel it drives.  The driver's fields are the variables        *)
(* framebuffer, dirty_lines and vcom; the select line and the panel are    *)
(* the variables cs, panel and panelPhase.  Every public method is one     *)
(* action; each hardware call of a method (cs.set_high, spi.write,         *)
(* cs.set_low) may fail, and `?` then ends the method at that call.        *)
(***************************************************************************)
EXTENDS Integers, Sequences, FiniteSets, TLC

VARIABLES
  pc,           \* "new" after Ls027b7dh01::new, "ready" after init, "failed" when init failed
  framebuffer,  \* Ls027b7dh01.framebuffer
  dirty_lines,  \* Ls027b7dh01.dirty_lines
  vcom,         \* Ls027b7dh01.vcom
  cs,           \* level of the select line (0 low, 1 high)
  panel,        \* the image held by the panel
  panelPhase,   \* what the panel expects next on the bus
  call,         \* the last method call: its name, arguments, result and hardware calls,
                \* and, when it returned an error, dirty_lines and vcom as they were before it
  nOk,          \* number of successful bus transactions so far
  nFail,        \* number of method calls that returned an error so far
  lastMode,     \* mode byte of the last transaction whose mode byte reached the bus (-1: none)
  lastOkMode,   \* mode byte of the last successful transaction (-1: none)
  address,      \* Sen0676.address
  scall,        \* the last call on the sensor driver: its name, arguments, what the
                \* transport answered, and its outcome
  net,          \* the boot-time network wait of main.rs: the event channel, link_up of
                \* wait_for_network, what it returned, and the events sent and received
  info_until    \* info_until of the main loop: "Some" while an info overlay is set

vars == <<pc, framebuffer, dirty_lines, vcom, cs, panel, panelPhase, call, nOk, nFail,
          lastMode, lastOkMode, address, scall, net, info_until>>
\* the display's part and the sensor's part of the state
dvars == <<pc, framebuffer, dirty_lines, vcom, cs, panel, panelPhase, call, nOk, nFail,
           lastMode, lastOkMode>>
svars == <<address, scall>>

(*************************** bounds of the model ***************************)
\* successful bus transactions per run (init's clear included)
MaxTx == 3
\* method calls that return an error per run
MaxFail == 1
\* a method's hardware calls 1..MaxFailStep, and its last two, are the ones that may fail
MaxFailStep == 3

(**************************** program constants ****************************)
\* sen0676.rs
DEFAULT_ADDRESS == 1
\* ls027b7dh01.rs
WIDTH == 400
HEIGHT == 240
BYTES_PER_LINE == 50
FRAMEBUFFER_SIZE == BYTES_PER_LINE * HEIGHT
DIRTY_BITMAP_SIZE == (HEIGHT + 7) \div 8
WRITE == 1
VCOM == 2
CLEAR == 4

(******************************* u8 arithmetic *****************************)
Pow2(k) == 2 ^ k
\* bit k of byte b
Bit(b, k) == (b \div Pow2(k)) % 2
\* b | (1 << k)
SetBit(b, k) == IF Bit(b, k) = 1 THEN b ELSE b + Pow2(k)
\* b & !(1 << k)
ClearBit(b, k) == IF Bit(b, k) = 1 THEN b - Pow2(k) ELSE b
RECURSIVE OrBits(_, _, _)
OrBits(a, b, k) ==
  IF k = 8 THEN 0
  ELSE (IF Bit(a, k) = 1 \/ Bit(b, k) = 1 THEN Pow2(k) ELSE 0) + OrBits(a, b, k + 1)
\* a | b on u8
Or8(a, b) == OrBits(a, b, 0)
\* n as u8
AsU8(n) == n % 256

(***************************************************************************)
(* [u8; FRAMEBUFFER_SIZE] arrays, held in chunks of BYTES_PER_LINE bytes:  *)
(* bg is the chunk of every line not in DOMAIN ex, ex the chunks that      *)
(* differ from it.  ArrAt reads byte i, ArrSet writes it, ArrFill is       *)
(* slice::fill and ArrSlice the BYTES_PER_LINE bytes from a line's start.  *)
(***************************************************************************)
ArrFill(v) == [bg |-> [j \in 1..BYTES_PER_LINE |-> v], ex |-> [c \in {} |-> <<>>]]
ArrChunk(a, c) == IF c \in DOMAIN a.ex THEN a.ex[c] ELSE a.bg
ArrAt(a, i) == ArrChunk(a, i \div BYTES_PER_LINE)[(i % BYTES_PER_LINE) + 1]
ArrPutChunk(a, c, row) ==
  LET S == (DOMAIN a.ex \ {c}) \cup (IF row = a.bg THEN {} ELSE {c})
  IN  [bg |-> a.bg, ex |-> [k \in S |-> IF k = c THEN row ELSE a.ex[k]]]
ArrSet(a, i, v) ==
  LET c == i \div BYTES_PER_LINE
  IN  ArrPutChunk(a, c, [ArrChunk(a, c) EXCEPT ![(i % BYTES_PER_LINE) + 1] = v])
\* a[start .. start + BYTES_PER_LINE], start a multiple of BYTES_PER_LINE
ArrSlice(a, start) == ArrChunk(a, start \div BYTES_PER_LINE)

(******************************* the driver *******************************)
\* Ls027b7dh01::new
\* a constructor that starts with every line dirty
new_all_dirty ==
  [framebuffer |-> ArrFill(255),
   dirty_lines |-> [i \in 0..DIRTY_BITMAP_SIZE - 1 |-> 255],
   vcom        |-> FALSE]

new == [framebuffer |-> ArrFill(255),
        dirty_lines |-> [i \in 0..DIRTY_BITMAP_SIZE - 1 |-> 0],
        vcom |-> FALSE]

mark_dirty(d, line) ==
  [d EXCEPT !.dirty_lines[line \div 8] = SetBit(@, line % 8)]

is_dirty(d, line) == Bit(d.dirty_lines[line \div 8], line % 8) # 0

\* the fill stops one byte short: lines 232..239 are left as they were
mark_all_dirty_short(d) ==
  [d EXCEPT !.dirty_lines = [i \in 0..DIRTY_BITMAP_SIZE - 1 |->
                               IF i < DIRTY_BITMAP_SIZE - 1 THEN 255 ELSE @[i]]]

mark_all_dirty(d) ==
  [d EXCEPT !.dirty_lines = [i \in 0..DIRTY_BITMAP_SIZE - 1 |-> 255]]

\* a clear_framebuffer that also inverts the polarity bit
clear_framebuffer_flips(d) ==
  mark_all_dirty([d EXCEPT !.framebuffer = ArrFill(255), !.vcom = ~@])

clear_framebuffer(d) == mark_all_dirty([d EXCEPT !.framebuffer = ArrFill(255)])

\* marks the line dirty whether or not the byte changed
set_pixel_always_marks(d, x, y, color) ==
  IF x >= WIDTH \/ y >= HEIGHT THEN d
  ELSE LET byte_idx == y * BYTES_PER_LINE + (x \div 8)
           bit_idx  == x % 8
           old_byte == ArrAt(d.framebuffer, byte_idx)
           new_byte == IF color THEN SetBit(old_byte, bit_idx)
                                ELSE ClearBit(old_byte, bit_idx)
           d1 == [d EXCEPT !.framebuffer = ArrSet(@, byte_idx, new_byte)]
       IN  mark_dirty(d1, y)

\* bit 7 taken for the leftmost pixel of a byte
set_pixel_msb_first(d, x, y, color) ==
  IF x >= WIDTH \/ y >= HEIGHT THEN d
  ELSE LET byte_idx == y * BYTES_PER_LINE + (x \div 8)
           bit_idx  == 7 - (x % 8)
           old_byte == ArrAt(d.framebuffer, byte_idx)
           new_byte == IF color THEN SetBit(old_byte, bit_idx)
                                ELSE ClearBit(old_byte, bit_idx)
           d1 == [d EXCEPT !.framebuffer = ArrSet(@, byte_idx, new_byte)]
       IN  IF new_byte # old_byte THEN mark_dirty(d1, y) ELSE d1

set_pixel(d, x, y, color) ==
  IF x >= WIDTH \/ y >= HEIGHT THEN d
  ELSE LET byte_idx == y * BYTES_PER_LINE + (x \div 8)
           bit_idx  == x % 8
           old_byte == ArrAt(d.framebuffer, byte_idx)
           new_byte == IF color THEN SetBit(old_byte, bit_idx)
                                ELSE ClearBit(old_byte, bit_idx)
           d1 == [d EXCEPT !.framebuffer = ArrSet(@, byte_idx, new_byte)]
       IN  IF new_byte # old_byte THEN mark_dirty(d1, y) ELSE d1

\* `as u16` of an i32
AsU16(n) == n % 65536

\* passes every pixel on to set_pixel, without the range check on the i32 coordinates
RECURSIVE draw_iter_unchecked(_, _)
draw_iter_unchecked(d, pixels) ==
  IF pixels = <<>> THEN d
  ELSE LET p == Head(pixels)
       IN  draw_iter_unchecked(set_pixel(d, AsU16(p.x), AsU16(p.y), p.on), Tail(pixels))

\* DrawTarget::draw_iter: Pixel(coord, color) is [x, y, on], x and y being i32
RECURSIVE draw_iter(_, _)
draw_iter(d, pixels) ==
  IF pixels = <<>> THEN d
  ELSE LET p == Head(pixels)
           d1 == IF p.x >= 0 /\ p.x < WIDTH /\ p.y >= 0 /\ p.y < HEIGHT
                 THEN set_pixel(d, AsU16(p.x), AsU16(p.y), p.on)
                 ELSE d
       IN  draw_iter(d1, Tail(pixels))

(***************************************************************************)
(* Hardware calls.  A method's hardware calls are listed in program order; *)
(* Attempt keeps those that run when call number `fail` returns an error   *)
(* (0: none fails).  A call that returns an error has had no effect: the   *)
(* pin keeps its level, the bytes are not put on the bus.                  *)
(***************************************************************************)
CsSet(level) == [kind |-> "cs", level |-> level, data |-> <<>>, ok |-> TRUE]
SpiWrite(bytes) == [kind |-> "spi", level |-> 0, data |-> bytes, ok |-> TRUE]

Succeeds(calls, fail) == fail = 0 \/ fail > Len(calls)

Attempt(calls, fail) ==
  LET last == IF Succeeds(calls, fail) THEN Len(calls) ELSE fail
  IN  [k \in 1..last |-> IF k = fail THEN [calls[k] EXCEPT !.ok = FALSE] ELSE calls[k]]

\* `?` on every hardware call, the fields committed after the last one: the
\* method returns at the first call that fails and leaves the fields as they were
\* commits the new state whatever the hardware calls returned
Transaction_commits(d, calls, fail, done) ==
  [self |-> done,
   ev   |-> Attempt(calls, fail),
   ret  |-> IF Succeeds(calls, fail) THEN "ok" ELSE "err"]

Transaction(d, calls, fail, done) ==
  [self |-> IF Succeeds(calls, fail) THEN done ELSE d,
   ev   |-> Attempt(calls, fail),
   ret  |-> IF Succeeds(calls, fail) THEN "ok" ELSE "err"]

\* a mode byte without the polarity bit
mode_byte_nopolarity(command, v) == Or8(command, IF v THEN 0 ELSE 0)

mode_byte(command, v) == Or8(command, IF v THEN VCOM ELSE 0)

\* the clear command without its trailing byte
clear_display_calls_short(d) ==
  <<CsSet(1), SpiWrite(<<mode_byte(CLEAR, d.vcom)>>), CsSet(0)>>

clear_display_calls(d) ==
  <<CsSet(1), SpiWrite(<<mode_byte(CLEAR, d.vcom), 0>>), CsSet(0)>>

\* clear_display: framebuffer and dirty_lines are reset before the first hardware call
clear_display(d, fail) ==
  LET d1 == [d EXCEPT !.framebuffer = ArrFill(255),
                      !.dirty_lines = [i \in 0..DIRTY_BITMAP_SIZE - 1 |-> 0]]
  IN  Transaction(d1, clear_display_calls(d1), fail, [d1 EXCEPT !.vcom = ~d1.vcom])

\* init: cs.set_low()?; sleep; clear_display()?
init(d, fail) ==
  IF fail = 1
  THEN Transaction(d, <<CsSet(0)>>, 1, d)
  ELSE LET r == clear_display(d, IF fail = 0 THEN 0 ELSE fail - 1)
       IN  [r EXCEPT !.ev = <<CsSet(0)>> \o r.ev]

toggle_vcom_calls(d) ==
  <<CsSet(1), SpiWrite(<<mode_byte(0, d.vcom), 0>>), CsSet(0)>>

\* toggle_vcom that sends the command and forgets to invert vcom
toggle_vcom_noflip(d, fail) ==
  Transaction(d, toggle_vcom_calls(d), fail, d)

toggle_vcom(d, fail) ==
  Transaction(d, toggle_vcom_calls(d), fail, [d EXCEPT !.vcom = ~d.vcom])

\* no early return for an empty bitmap
has_dirty_always(d) == \E i \in 0..DIRTY_BITMAP_SIZE - 1 : d.dirty_lines[i] >= 0

has_dirty(d) == \E i \in 0..DIRTY_BITMAP_SIZE - 1 : d.dirty_lines[i] # 0

\* the lines the loop `for line in 0..HEIGHT` does not skip, in loop order
dirty_in_order(d) ==
  SelectSeq([i \in 1..HEIGHT |-> i - 1], LAMBDA line : is_dirty(d, line))

\* the buffer's line index as the address on the wire
line_buf_zero_based(d, line) ==
  LET start == line * BYTES_PER_LINE
  IN  <<AsU8(line)>> \o ArrSlice(d.framebuffer, start) \o <<0>>

\* [0u8; 1 + BYTES_PER_LINE + 1] with the address in front and the line's bytes copied in
line_buf(d, line) ==
  LET start == line * BYTES_PER_LINE
  IN  <<AsU8(line + 1)>> \o ArrSlice(d.framebuffer, start) \o <<0>>

flush_calls(d) ==
  LET lines == dirty_in_order(d)
  IN  <<CsSet(1), SpiWrite(<<mode_byte(WRITE, d.vcom)>>)>>
      \o [k \in 1..Len(lines) |-> SpiWrite(line_buf(d, lines[k]))]
      \o <<SpiWrite(<<0>>), CsSet(0)>>

\* a flush that leaves the dirty bits set
flush_keeps_dirty(d, fail) ==
  IF ~has_dirty(d) THEN toggle_vcom(d, fail)
  ELSE Transaction(d, flush_calls(d), fail, [d EXCEPT !.vcom = ~d.vcom])

flush(d, fail) ==
  IF ~has_dirty(d) THEN toggle_vcom(d, fail)
  ELSE Transaction(d, flush_calls(d), fail,
                   [d EXCEPT !.vcom = ~d.vcom,
                             !.dirty_lines = [i \in 0..DIRTY_BITMAP_SIZE - 1 |-> 0]])

fill_black(d, fail) ==
  flush(mark_all_dirty([d EXCEPT !.framebuffer = ArrFill(0)]), fail)

(******************************** the panel ********************************)
(* The panel listens while the select line is high.  A rising edge of the  *)
(* select line starts a transaction: the first byte is the mode byte; in   *)
(* write mode every 52-byte packet [address, 50 bytes, dummy] latches one  *)
(* line, a clear command resets the image to white (0xFF), and what does   *)
(* not parse is ignored until the select line falls.                       *)
(***************************************************************************)
PanelStep(h, e) ==
  IF e.kind = "cs"
  THEN IF ~e.ok THEN h
       ELSE IF e.level = 1
       THEN (IF h.cs = 0 THEN [h EXCEPT !.cs = 1, !.phase = "cmd"] ELSE h)
       ELSE [h EXCEPT !.cs = 0, !.phase = "idle"]
  ELSE IF ~e.ok \/ h.cs = 0 THEN h
  ELSE IF h.phase = "cmd"
  THEN (IF Bit(e.data[1], 0) = 1 THEN [h EXCEPT !.phase = "lines"]
        ELSE IF Bit(e.data[1], 2) = 1
        THEN [h EXCEPT !.phase = "done", !.cleared = TRUE, !.rows = [l \in {} |-> <<>>]]
        ELSE [h EXCEPT !.phase = "done"])
  ELSE IF h.phase = "lines"
  THEN (IF Len(e.data) = 1 + BYTES_PER_LINE + 1
        THEN (IF e.data[1] \in 1..HEIGHT
              THEN [h EXCEPT !.rows = ((e.data[1] - 1) :> e.data) @@ h.rows]
              ELSE h)
        ELSE [h EXCEPT !.phase = "done"])
  ELSE h

\* the panel after the hardware calls evs[lo..hi], in order; by halves, the first
\* half evaluated before the second (the list of a full flush is 244 calls long)
RECURSIVE PanelRun(_, _, _, _)
PanelRun(h, evs, lo, hi) ==
  IF lo > hi THEN h
  ELSE IF lo = hi THEN PanelStep(h, evs[lo])
  ELSE LET mid == (lo + hi) \div 2
           left == PanelRun(h, evs, lo, mid)
       IN  IF left.cs = 0 \/ left.cs = 1 THEN PanelRun(left, evs, mid + 1, hi) ELSE left

\* an array re-based on the chunk most of its lines hold
Rebase(a) ==
  IF 2 * Cardinality(DOMAIN a.ex) <= HEIGHT THEN a
  ELSE LET most == {r \in {a.ex[c] : c \in DOMAIN a.ex} :
                      2 * Cardinality({c \in DOMAIN a.ex : a.ex[c] = r}) > HEIGHT}
       IN  IF most = {} THEN a
           ELSE LET r == CHOOSE w \in most : TRUE
                    S == {c \in 0..HEIGHT - 1 : ArrChunk(a, c) # r}
                IN  [bg |-> r, ex |-> [c \in S |-> ArrChunk(a, c)]]

\* the image with the latched packets (line -> [address, bytes, dummy]) written over it
Latch(img, rows) ==
  IF DOMAIN rows = {} THEN img
  ELSE LET bytes(l) == SubSeq(rows[l], 2, 1 + BYTES_PER_LINE)
           S == (DOMAIN img.ex \ DOMAIN rows) \cup {l \in DOMAIN rows : bytes(l) # img.bg}
       IN  Rebase([bg |-> img.bg,
                   ex |-> [l \in S |-> IF l \in DOMAIN rows THEN bytes(l) ELSE img.ex[l]]])

(******************************** the state ********************************)
Self == [framebuffer |-> framebuffer, dirty_lines |-> dirty_lines, vcom |-> vcom]

Transactions == {"init", "clear_display", "toggle_vcom", "flush", "fill_black"}

\* the hardware calls among 1..n that are made to fail (0: none)
FailPoints(n) ==
  {0} \cup (IF nFail < MaxFail THEN {k \in 1..n : k <= MaxFailStep \/ k >= n - 1} ELSE {})

\* the mode byte a call put on the bus (-1: none)
ModeOnBus(ev) ==
  IF \E k \in 1..Len(ev) : ev[k].kind = "spi" /\ ev[k].ok
  THEN ev[CHOOSE k \in 1..Len(ev) :
            /\ ev[k].kind = "spi" /\ ev[k].ok
            /\ \A j \in 1..(k - 1) : ~(ev[j].kind = "spi" /\ ev[j].ok)].data[1]
  ELSE -1

\* sampled set_pixel arguments: the first pixel of the first line, the last pixel
\* of the last line, and one past each edge
Pixels == {<<0, 0>>, <<WIDTH - 1, HEIGHT - 1>>, <<WIDTH, 0>>, <<0, HEIGHT>>}

NoPre == [dirty_lines |-> <<>>, vcom |-> FALSE]

\* no call made on the sensor driver yet
NoCall == [op |-> "new", register |-> 0, value |-> 0, wr |-> "ok", rd |-> <<>>,
           out |-> [ret |-> [kind |-> "Ok", val |-> 0], tx |-> <<>>, rx |-> <<>>, reads |-> 0]]

Init ==
  /\ pc = "new"
  /\ framebuffer = new.framebuffer
  /\ dirty_lines = new.dirty_lines
  /\ vcom = new.vcom
  /\ cs \in {0, 1}
  /\ panel \in {ArrFill(255), ArrFill(0)}
  /\ panelPhase = IF cs = 0 THEN "idle" ELSE "done"
  /\ call = [op |-> "new", args |-> <<>>, ret |-> "ok", ev |-> <<>>, pre |-> NoPre]
  /\ nOk = 0
  /\ nFail = 0
  /\ lastMode = -1
  /\ lastOkMode = -1
  /\ address = DEFAULT_ADDRESS
  /\ scall = NoCall
  /\ net = [queue |-> <<>>, link_up |-> FALSE, ret |-> <<>>, sent |-> <<>>,
            received |-> <<>>]
  /\ info_until = "Some"

\* the effect of a method call with result r = [self, ev, ret]; a main-loop
\* iteration also yields info_until
Do(op, args, r) ==
  LET h == PanelRun([cs |-> cs, phase |-> panelPhase, cleared |-> FALSE,
                     rows |-> [l \in {} |-> <<>>]], r.ev, 1, Len(r.ev))
      m == ModeOnBus(r.ev)
  IN  /\ framebuffer' = r.self.framebuffer
      /\ dirty_lines' = r.self.dirty_lines
      /\ vcom' = r.self.vcom
      /\ cs' = h.cs
      /\ panelPhase' = h.phase
      /\ panel' = Latch(IF h.cleared THEN ArrFill(255) ELSE panel, h.rows)
      /\ call' = [op |-> op, args |-> args, ret |-> r.ret, ev |-> r.ev,
                   pre |-> IF r.ret = "err"
                           THEN [dirty_lines |-> dirty_lines, vcom |-> vcom]
                           ELSE NoPre]
      /\ nOk' = IF op \in Transactions /\ r.ret = "ok" THEN nOk + 1 ELSE nOk
      /\ nFail' = IF r.ret = "err" THEN nFail + 1 ELSE nFail
      /\ lastMode' = IF m # -1 THEN m ELSE lastMode
      /\ lastOkMode' = IF op \in Transactions /\ r.ret = "ok" THEN m ELSE lastOkMode
      /\ info_until' = IF "info_until" \in DOMAIN r THEN r.info_until ELSE info_until
      /\ UNCHANGED svars
      /\ UNCHANGED net

NoBus(d) == [self |-> d, ev |-> <<>>, ret |-> "ok"]

\* main.rs: display.init()? right after new; a failed init ends the program
InitCall ==
  /\ pc = "new"
  /\ \E fail \in FailPoints(Len(init(Self, 0).ev)) :
       LET r == init(Self, fail)
       IN  /\ Do("init", <<>>, r)
           /\ pc' = IF r.ret = "ok" THEN "ready" ELSE "failed"

SetPixel ==
  /\ pc = "ready"
  /\ \E p \in Pixels, color \in BOOLEAN :
       Do("set_pixel", <<>>, NoBus(set_pixel(Self, p[1], p[2], color)))
  /\ UNCHANGED pc

MarkAllDirty ==
  /\ pc = "ready"
  /\ Do("mark_all_dirty", <<>>, NoBus(mark_all_dirty(Self)))
  /\ UNCHANGED pc

ClearFramebuffer ==
  /\ pc = "ready"
  /\ Do("clear_framebuffer", <<>>, NoBus(clear_framebuffer(Self)))
  /\ UNCHANGED pc

ClearDisplay ==
  /\ pc = "ready" /\ nOk < MaxTx
  /\ \E fail \in FailPoints(Len(clear_display(Self, 0).ev)) :
       Do("clear_display", <<>>, clear_display(Self, fail))
  /\ UNCHANGED pc

ToggleVcom ==
  /\ pc = "ready" /\ nOk < MaxTx
  /\ \E fail \in FailPoints(Len(toggle_vcom(Self, 0).ev)) :
       Do("toggle_vcom", <<>>, toggle_vcom(Self, fail))
  /\ UNCHANGED pc

Flush ==
  /\ pc = "ready" /\ nOk < MaxTx
  /\ \E fail \in FailPoints(Len(flush(Self, 0).ev)) :
       Do("flush", <<>>, flush(Self, fail))
  /\ UNCHANGED pc

FillBlack ==
  /\ pc = "ready" /\ nOk < MaxTx
  /\ \E fail \in FailPoints(Len(fill_black(Self, 0).ev)) :
       Do("fill_black", <<>>, fill_black(Self, fail))
  /\ UNCHANGED pc

\* the driver without fill_black (which is fill, mark_all_dirty, flush)
Next ==
  \/ InitCall
  \/ SetPixel
  \/ MarkAllDirty
  \/ ClearFramebuffer
  \/ ClearDisplay
  \/ ToggleVcom
  \/ Flush

Spec == Init /\ [][Next]_vars

\* the driver with fill_black
FillNext ==
  \/ InitCall
  \/ SetPixel
  \/ MarkAllDirty
  \/ ClearFramebuffer
  \/ ClearDisplay
  \/ ToggleVcom
  \/ Flush
  \/ FillBlack

FillSpec == Init /\ [][FillNext]_vars

(***************************************************************************)
(* The pixel operations on their own: set_pixel and draw_iter applied, in  *)
(* any order and with the arguments recorded in call.args, to the engine   *)
(* as new left it.                                                         *)
(***************************************************************************)
\* sampled coordinates: first and last column/line, a column of the second byte,
\* one past the edge, u16::MAX
PixelXs == {0, 9, WIDTH - 1, WIDTH, 65535}
PixelYs == {0, HEIGHT - 1, HEIGHT}

Px(x, y, on) == [x |-> x, y |-> y, on |-> on]

\* sampled draw_iter arguments: pixels inside the grid, with a negative coordinate,
\* past an edge, and with an i32 coordinate that `as u16` would turn into 0
DrawLists ==
  { <<>>,
    <<Px(0, 0, FALSE)>>,
    <<Px(-1, 0, FALSE)>>,
    <<Px(0, -1, FALSE)>>,
    <<Px(-65536, 0, FALSE)>>,
    <<Px(0, -65536, FALSE), Px(WIDTH, 0, FALSE), Px(0, HEIGHT, FALSE)>>,
    <<Px(WIDTH - 1, HEIGHT - 1, FALSE), Px(-1, -1, FALSE), Px(0, 0, TRUE)>>,
    <<Px(0, 0, FALSE), Px(0, 0, TRUE)>> }

PixelSet ==
  /\ \E x \in PixelXs, y \in PixelYs, color \in BOOLEAN :
       Do("set_pixel", <<x, y, color>>, NoBus(set_pixel(Self, x, y, color)))
  /\ UNCHANGED pc

DrawIter ==
  /\ \E pixels \in DrawLists :
       Do("draw_iter", <<pixels>>, NoBus(draw_iter(Self, pixels)))
  /\ UNCHANGED pc

PixelNext ==
  \/ PixelSet
  \/ DrawIter

PixelSpec == Init /\ [][PixelNext]_vars

(***************************************************************************)
(* Part 2: the SEN0676 radar level sensor driver (src/src/sen0676.rs),     *)
(* Modbus-RTU over a transport U: Read + Write.  A call on the transport   *)
(* is uart.write(frame), which returns Ok or Err, or uart.read(buf), which *)
(* returns Ok(n) with the next n >= 1 bytes, Ok(0) when its timeout ran    *)
(* out, or Err.  What the transport will answer to the reads of one method *)
(* call is a sequence of read results: a non-empty byte string is          *)
(* Ok(its length) (or Ok(less), the rest staying for the next read, when   *)
(* the buffer is shorter), <<>> is Ok(0), IoErr is Err; after the last     *)
(* one every read returns Ok(0).                                           *)
(***************************************************************************)
EMPTY_HEIGHT == 1
WATER_LEVEL == 3
INSTALLATION_HEIGHT == 5
DEVICE_ADDRESS == 1012
BAUD_RATE == 1014
RANGE == 2004
READ_HOLDING_REGISTERS == 3
WRITE_SINGLE_REGISTER == 6

\* a ^ b on unsigned integers, bit by bit
RECURSIVE XorBits(_, _)
XorBits(a, b) ==
  IF a = 0 THEN b
  ELSE IF b = 0 THEN a
  ELSE (((a % 2) + (b % 2)) % 2) + 2 * XorBits(a \div 2, b \div 2)

\* a ^ b for every pair of bytes, computed once
XorTable == [a \in 0..255 |-> [b \in 0..255 |-> XorBits(a, b)]]

\* a ^ b on u16: the high bytes and the low bytes apart
Xor(a, b) == 256 * XorTable[a \div 256][b \div 256] + XorTable[a % 256][b % 256]

\* the inner loop of crc16: `for _ in 0..8`, k rounds left
RECURSIVE crc16_bits(_, _)
crc16_bits(crc, k) ==
  IF k = 0 THEN crc
  ELSE LET next == IF crc % 2 # 0 THEN Xor(crc \div 2, 40961) ELSE crc \div 2
       IN  \* the test makes next a number before the next round starts
           IF next >= 0 THEN crc16_bits(next, k - 1) ELSE next

\* the outer loop of crc16 from byte i of data on
RECURSIVE crc16_from(_, _, _)
crc16_from(data, i, crc) ==
  IF i > Len(data) THEN crc
  ELSE LET next == crc16_bits(Xor(crc, data[i]), 8)
       IN  IF next >= 0 THEN crc16_from(data, i + 1, next) ELSE next

\* the accumulator started at 0 instead of 0xFFFF
crc16_zero_init(data) == crc16_from(data, 1, 0)

crc16(data) == crc16_from(data, 1, 65535)

\* results: Ok(value) or Err(kind), ModbusException carrying its code
Ok(v) == [kind |-> "Ok", val |-> v]
Err(kind) == [kind |-> kind, val |-> 0]
ModbusException(code) == [kind |-> "ModbusException", val |-> code]

\* the read result Err (no byte string holds -1)
IoErr == <<-1>>

\* each read overwrites the buffer from its start instead of filling buf[pos..]
RECURSIVE read_exact_loop_no_accumulate(_, _, _, _)
read_exact_loop_no_accumulate(n, buf, rd, reads) ==
  IF Len(buf) >= n THEN [ret |-> Ok(0), buf |-> buf, reads |-> reads]
  ELSE IF rd = <<>> \/ Head(rd) = <<>>
       THEN [ret |-> Err("Timeout"), buf |-> buf, reads |-> reads + 1]
  ELSE IF Head(rd) = IoErr
       THEN [ret |-> Err("Io"), buf |-> buf, reads |-> reads + 1]
  ELSE LET got == Head(rd)
       IN  IF Len(got) <= n
           THEN read_exact_loop_no_accumulate(n, got, Tail(rd), reads + 1)
           ELSE read_exact_loop_no_accumulate(n, SubSeq(got, 1, n),
                                <<SubSeq(got, n + 1, Len(got))>> \o Tail(rd), reads + 1)

\* a read of zero bytes is tried again instead of ending the call
RECURSIVE read_exact_loop_retry_on_zero(_, _, _, _)
read_exact_loop_retry_on_zero(n, buf, rd, reads) ==
  IF Len(buf) >= n THEN [ret |-> Ok(0), buf |-> buf, reads |-> reads]
  ELSE IF rd = <<>>
       THEN [ret |-> Err("Timeout"), buf |-> buf, reads |-> reads + 1]
  ELSE IF Head(rd) = <<>>
       THEN read_exact_loop_retry_on_zero(n, buf, Tail(rd), reads + 1)
  ELSE IF Head(rd) = IoErr
       THEN [ret |-> Err("Io"), buf |-> buf, reads |-> reads + 1]
  ELSE LET room == n - Len(buf)
           got  == Head(rd)
       IN  IF Len(got) <= room
           THEN read_exact_loop_retry_on_zero(n, buf \o got, Tail(rd), reads + 1)
           ELSE read_exact_loop_retry_on_zero(n, buf \o SubSeq(got, 1, room),
                                <<SubSeq(got, room + 1, Len(got))>> \o Tail(rd), reads + 1)

\* read_exact for a buffer of n bytes: buf is what has been read so far, rd the read
\* results still to come, reads the number of uart.read calls made
RECURSIVE read_exact_loop(_, _, _, _)
read_exact_loop(n, buf, rd, reads) ==
  IF Len(buf) >= n THEN [ret |-> Ok(0), buf |-> buf, reads |-> reads]
  ELSE IF rd = <<>> \/ Head(rd) = <<>>
       THEN [ret |-> Err("Timeout"), buf |-> buf, reads |-> reads + 1]
  ELSE IF Head(rd) = IoErr
       THEN [ret |-> Err("Io"), buf |-> buf, reads |-> reads + 1]
  ELSE LET room == n - Len(buf)
           got  == Head(rd)
       IN  IF Len(got) <= room
           THEN read_exact_loop(n, buf \o got, Tail(rd), reads + 1)
           ELSE read_exact_loop(n, buf \o SubSeq(got, 1, room),
                                <<SubSeq(got, room + 1, Len(got))>> \o Tail(rd), reads + 1)

read_exact(n, rd) == read_exact_loop(n, <<>>, rd, 0)

\* the low byte in place of the high byte
HiByte_truncated(x) == x % 256

\* (x >> 8) as u8 and x as u8 of a u16
HiByte(x) == (x \div 256) % 256
LoByte(x) == x % 256
\* (hi as u16) << 8 | lo as u16
U16(hi, lo) == hi * 256 + lo

\* the CRC appended high byte first
Request_crc_high_first(addr, func, register, word) ==
  LET head == <<addr, func, HiByte(register), LoByte(register), HiByte(word), LoByte(word)>>
      crc  == crc16(head)
  IN  head \o <<HiByte(crc), LoByte(crc)>>

\* the request of read_register / write_register: six bytes and their CRC, low byte first
Request(addr, func, register, word) ==
  LET head == <<addr, func, HiByte(register), LoByte(register), HiByte(word), LoByte(word)>>
      crc  == crc16(head)
  IN  head \o <<LoByte(crc), HiByte(crc)>>

\* the result of a register call: ret, the frames passed to uart.write, the response
\* bytes read, the number of uart.read calls
Outcome(ret, tx, rx, reads) == [ret |-> ret, tx |-> tx, rx |-> rx, reads |-> reads]

\* the function code checked before the address
validate_read_function_first(addr, response) ==
  LET received_crc == U16(response[7], response[6])
      calculated_crc == crc16(SubSeq(response, 1, 5))
  IN  IF received_crc # calculated_crc THEN Err("CrcMismatch")
      ELSE IF Bit(response[2], 7) # 0 THEN ModbusException(response[3])
      ELSE IF response[2] # READ_HOLDING_REGISTERS THEN Err("FunctionMismatch")
      ELSE IF response[1] # addr THEN Err("AddressMismatch")
      ELSE IF response[3] # 2 THEN Err("InvalidLength")
      ELSE Ok(U16(response[4], response[5]))

\* the value taken low byte first
validate_read_little_endian(addr, response) ==
  LET received_crc == U16(response[7], response[6])
      calculated_crc == crc16(SubSeq(response, 1, 5))
  IN  IF received_crc # calculated_crc THEN Err("CrcMismatch")
      ELSE IF Bit(response[2], 7) # 0 THEN ModbusException(response[3])
      ELSE IF response[1] # addr THEN Err("AddressMismatch")
      ELSE IF response[2] # READ_HOLDING_REGISTERS THEN Err("FunctionMismatch")
      ELSE IF response[3] # 2 THEN Err("InvalidLength")
      ELSE Ok(U16(response[5], response[4]))

\* no CRC check
validate_read_no_crc(addr, response) ==
  IF Bit(response[2], 7) # 0 THEN ModbusException(response[3])
  ELSE IF response[1] # addr THEN Err("AddressMismatch")
  ELSE IF response[2] # READ_HOLDING_REGISTERS THEN Err("FunctionMismatch")
  ELSE IF response[3] # 2 THEN Err("InvalidLength")
  ELSE Ok(U16(response[4], response[5]))

\* read_register from `// Verify CRC` on: the checks on the 7 bytes read, in program order
validate_read(addr, response) ==
  LET received_crc == U16(response[7], response[6])
      calculated_crc == crc16(SubSeq(response, 1, 5))
  IN  IF received_crc # calculated_crc THEN Err("CrcMismatch")
      ELSE IF Bit(response[2], 7) # 0 THEN ModbusException(response[3])
      ELSE IF response[1] # addr THEN Err("AddressMismatch")
      ELSE IF response[2] # READ_HOLDING_REGISTERS THEN Err("FunctionMismatch")
      ELSE IF response[3] # 2 THEN Err("InvalidLength")
      ELSE Ok(U16(response[4], response[5]))

\* the request is written a second time when the first answer is missing or damaged
read_register_retry(addr, register, wr, rd) ==
  LET request == Request(addr, READ_HOLDING_REGISTERS, register, 1)
      r == read_exact(7, rd)
      first == IF r.ret.kind # "Ok" THEN r.ret ELSE validate_read(addr, r.buf)
  IN  IF wr # "ok" THEN Outcome(Err("Io"), <<request>>, <<>>, 0)
      ELSE IF first.kind \in {"Timeout", "CrcMismatch"}
           THEN Outcome(Err("Timeout"), <<request, request>>, r.buf, r.reads + 1)
      ELSE Outcome(first, <<request>>, r.buf, r.reads)

\* wr: what uart.write returns ("ok" or "err"); rd: what the reads will return
read_register(addr, register, wr, rd) ==
  LET request == Request(addr, READ_HOLDING_REGISTERS, register, 1)
      r == read_exact(7, rd)
  IN  IF wr # "ok" THEN Outcome(Err("Io"), <<request>>, <<>>, 0)
      ELSE IF r.ret.kind # "Ok" THEN Outcome(r.ret, <<request>>, r.buf, r.reads)
      ELSE Outcome(validate_read(addr, r.buf), <<request>>, r.buf, r.reads)

\* the address echo not checked
validate_write_no_address(addr, response) ==
  LET received_crc == U16(response[8], response[7])
      calculated_crc == crc16(SubSeq(response, 1, 6))
  IN  IF received_crc # calculated_crc THEN Err("CrcMismatch")
      ELSE IF Bit(response[2], 7) # 0 THEN ModbusException(response[3])
      ELSE IF response[2] # WRITE_SINGLE_REGISTER THEN Err("FunctionMismatch")
      ELSE Ok(0)

\* write_register from `// Verify CRC` on: the checks on the 8 bytes read
validate_write(addr, response) ==
  LET received_crc == U16(response[8], response[7])
      calculated_crc == crc16(SubSeq(response, 1, 6))
  IN  IF received_crc # calculated_crc THEN Err("CrcMismatch")
      ELSE IF Bit(response[2], 7) # 0 THEN ModbusException(response[3])
      ELSE IF response[1] # addr THEN Err("AddressMismatch")
      ELSE IF response[2] # WRITE_SINGLE_REGISTER THEN Err("FunctionMismatch")
      ELSE Ok(0)

write_register(addr, register, value, wr, rd) ==
  LET request == Request(addr, WRITE_SINGLE_REGISTER, register, value)
      r == read_exact(8, rd)
  IN  IF wr # "ok" THEN Outcome(Err("Io"), <<request>>, <<>>, 0)
      ELSE IF r.ret.kind # "Ok" THEN Outcome(r.ret, <<request>>, r.buf, r.reads)
      ELSE Outcome(validate_write(addr, r.buf), <<request>>, r.buf, r.reads)

(***************************************************************************)
(* One register call on a sensor driver constructed with some address,     *)
(* with the transport answering in every sampled way.  The device's side   *)
(* of the protocol (module doc and the frame layouts in the comments of    *)
(* read_register and write_register) frames its answers with the Modbus    *)
(* CRC, low byte first.                                                    *)
(***************************************************************************)
\* a frame as a device sends it: the body and its CRC
Framed(body) == body \o <<LoByte(crc16(body)), HiByte(crc16(body))>>
SetAt(s, i, v) == [s EXCEPT ![i] = v]

\* [addr] [0x03] [byte_count] [data_hi] [data_lo] [crc_lo] [crc_hi]
ReadResponse(addr, hi, lo) == Framed(<<addr, READ_HOLDING_REGISTERS, 2, hi, lo>>)
\* [addr] [function | 0x80] [code] [crc_lo] [crc_hi]
ExceptionFrame(addr, func, code) == Framed(<<addr, func + 128, code>>)

\* sampled device addresses, data bytes, exception codes, registers and values
Addresses == {DEFAULT_ADDRESS, 253}
DataBytes == {0, 1, 2, 127, 128, 255}
ExceptionCodes == {1, 2, 4, 255}
Registers == {EMPTY_HEIGHT, WATER_LEVEL, INSTALLATION_HEIGHT, DEVICE_ADDRESS, BAUD_RATE, RANGE}
WriteRegisters == Registers \cup {0, 255, 65535}
WriteValues == {0, 1, 255, 256, 1000, 1152, 32768, 65535}

\* the well-formed responses whose single bytes are changed
BaseResponse(addr) == ReadResponse(addr, 3, 232)
BaseResponses(addr) == {BaseResponse(addr), ReadResponse(addr, 255, 0)}

\* 7-byte responses: well-formed ones; every change of one byte of one of them; every
\* combination of address, function and byte count, with a right and with a wrong CRC
ReadResponses(addr) ==
  {ReadResponse(addr, hi, lo) : hi \in DataBytes, lo \in DataBytes}
  \cup {SetAt(base, i, v) : base \in BaseResponses(addr), i \in 1..7, v \in 0..255}
  \cup {Framed(<<ad, fn, cnt, 18, 52>>) :
          ad \in {addr, addr + 1}, fn \in {3, 6, 131, 134}, cnt \in {2, 0, 3}}
  \cup {SetAt(Framed(<<ad, fn, cnt, 18, 52>>), 6, 0) :
          ad \in {addr, addr + 1}, fn \in {3, 6, 131, 134}, cnt \in {2, 0, 3}}

\* a 5-byte exception frame followed by silence, by two more bytes, by a well-formed
\* response
ExceptionAnswers(addr, func, follow) ==
  {<<ExceptionFrame(addr, func, code)>> : code \in ExceptionCodes}
  \cup {<<ExceptionFrame(addr, func, code) \o pad>> :
          code \in ExceptionCodes, pad \in {<<0, 0>>, <<0, 0, 0>>, <<7, 9>>}}
  \cup {<<ExceptionFrame(addr, func, code), follow>> : code \in ExceptionCodes}

\* a response arriving whole, with more behind it, in two reads, cut short by a
\* timeout or by a transport error, or not at all
Deliveries(resp) ==
  {<<resp>>, <<resp \o <<9, 9>> >>, <<>>, <<IoErr>>}
  \cup {<<SubSeq(resp, 1, k), SubSeq(resp, k + 1, Len(resp))>> : k \in 1..(Len(resp) - 1)}
  \cup {<<SubSeq(resp, 1, k)>> : k \in 1..(Len(resp) - 1)}
  \cup {<<SubSeq(resp, 1, k), <<>>, SubSeq(resp, k + 1, Len(resp))>> : k \in {3}}
  \cup {<<SubSeq(resp, 1, k), IoErr, SubSeq(resp, k + 1, Len(resp))>> : k \in {3}}
  \cup {[i \in 1..Len(resp) |-> <<resp[i]>>]}
  \cup {[i \in 1..(Len(resp) + 1) |->
           IF i <= k THEN <<resp[i]>> ELSE IF i = k + 1 THEN stop ELSE <<resp[i - 1]>>] :
          k \in {1, Len(resp) - 1}, stop \in {<<>>, IoErr}}
  \cup {<<SubSeq(resp, 1, 2), SubSeq(resp, 3, 3), SubSeq(resp, 4, Len(resp))>>}

ReadAnswers(addr) ==
  {<<resp>> : resp \in ReadResponses(addr)}
  \cup Deliveries(BaseResponse(addr))
  \cup ExceptionAnswers(addr, READ_HOLDING_REGISTERS, BaseResponse(addr))

\* 8-byte responses to a write request: its echo, the echo of another value or
\* register, another address or function, a wrong CRC
WriteResponses(addr, register, value) ==
  {Request(ad, fn, rg, vl) :
     ad \in {addr, addr + 1}, fn \in {WRITE_SINGLE_REGISTER, READ_HOLDING_REGISTERS},
     rg \in {register, RANGE}, vl \in {value, 1000}}
  \cup {SetAt(Request(addr, WRITE_SINGLE_REGISTER, register, value), i, 90) : i \in 1..8}
  \cup {Framed(<<ad, fn, 2, 0, 0, 0>>) : ad \in {addr, addr + 1}, fn \in {134, 131}}

WriteAnswers(addr, register, value) ==
  {<<resp>> : resp \in WriteResponses(addr, register, value)}
  \cup Deliveries(Request(addr, WRITE_SINGLE_REGISTER, register, value))
  \cup ExceptionAnswers(addr, WRITE_SINGLE_REGISTER,
                        Request(addr, WRITE_SINGLE_REGISTER, register, value))

RegisterInit ==
  /\ pc = "new"
  /\ framebuffer = new.framebuffer
  /\ dirty_lines = new.dirty_lines
  /\ vcom = new.vcom
  /\ cs = 0
  /\ panel = ArrFill(255)
  /\ panelPhase = "idle"
  /\ call = [op |-> "new", args |-> <<>>, ret |-> "ok", ev |-> <<>>, pre |-> NoPre]
  /\ nOk = 0
  /\ nFail = 0
  /\ lastMode = -1
  /\ lastOkMode = -1
  /\ address \in Addresses
  /\ scall = NoCall
  /\ net = [queue |-> <<>>, link_up |-> FALSE, ret |-> <<>>, sent |-> <<>>,
            received |-> <<>>]
  /\ info_until = "Some"

SensorCall(op, register, value, wr, rd, out) ==
  /\ scall' = [op |-> op, register |-> register, value |-> value, wr |-> wr, rd |-> rd,
               out |-> out]
  /\ UNCHANGED address
  /\ UNCHANGED dvars
  /\ UNCHANGED <<net, info_until>>

\* every register with a well-formed answer, silence or a failing uart.write (which is
\* followed by no read, whatever the device would have sent); one register with
\* every sampled answer
ReadRegister ==
  /\ scall.op = "new"
  /\ \/ \E register \in Registers, rd \in {<<BaseResponse(address)>>, <<>>} :
          SensorCall("read_register", register, 0, "ok", rd,
                     read_register(address, register, "ok", rd))
     \/ \E register \in Registers, rd \in {<<BaseResponse(address)>>, <<>>} :
          SensorCall("read_register", register, 0, "err", rd,
                     read_register(address, register, "err", rd))
     \/ \E rd \in ReadAnswers(address) :
          SensorCall("read_register", WATER_LEVEL, 0, "ok", rd,
                     read_register(address, WATER_LEVEL, "ok", rd))

\* every register and value with the echo, silence or a failing uart.write; one
\* register and value with every sampled answer
WriteRegister ==
  /\ scall.op = "new"
  /\ \/ \E register \in WriteRegisters, value \in WriteValues :
          \E rd \in {<<Request(address, WRITE_SINGLE_REGISTER, register, value)>>, <<>>} :
            SensorCall("write_register", register, value, "ok", rd,
                       write_register(address, register, value, "ok", rd))
     \/ \E register \in WriteRegisters, value \in WriteValues :
          SensorCall("write_register", register, value, "err", <<>>,
                     write_register(address, register, value, "err", <<>>))
     \/ \E rd \in WriteAnswers(address, INSTALLATION_HEIGHT, 300) :
          SensorCall("write_register", INSTALLATION_HEIGHT, 300, "ok", rd,
                     write_register(address, INSTALLATION_HEIGHT, 300, "ok", rd))

RegisterNext ==
  \/ ReadRegister
  \/ WriteRegister

RegisterSpec == RegisterInit /\ [][RegisterNext]_vars

(***************************************************************************)
(* What the claims read off a state or a step.                             *)
(***************************************************************************)
\* the byte strings of the spi.write calls that succeeded, in order
SpiData(ev) ==
  LET W == SelectSeq(ev, LAMBDA e : e.kind = "spi" /\ e.ok)
  IN  [k \in 1..Len(W) |-> W[k].data]
\* the BYTES_PER_LINE bytes of line l of an array
LineBytes(a, l) == [j \in 1..BYTES_PER_LINE |-> ArrAt(a, l * BYTES_PER_LINE + j - 1)]
\* the lines whose bit is set in a dirty bitmap
DirtySet(dl) == {l \in 0..HEIGHT - 1 : (dl[l \div 8] \div (2 ^ (l % 8))) % 2 = 1}
\* the polarity bit of a mode byte (M1)
VcomBit(m) == (m \div 2) % 2
BoolBit(b) == IF b THEN 1 ELSE 0
SameBytes(a, b) == \A l \in 0..HEIGHT - 1 : ArrChunk(a, l) = ArrChunk(b, l)
BusMethods == {"clear_display", "toggle_vcom", "flush"}

(***************************************************************************)
(* C1.  Polarity alternates strictly: after n successful bus transactions  *)
(* (clear, toggle or flush, init's clear being the first) the polarity bit *)
(* is n mod 2, and the mode byte of the n-th successful transaction        *)
(* carried the bit (n-1) mod 2.                                            *)
(***************************************************************************)
C1_PolarityAlternates ==
  /\ BoolBit(vcom) = nOk % 2
  /\ nOk > 0 => lastOkMode # -1 /\ VcomBit(lastOkMode) = (nOk - 1) % 2
  /\ nOk = 0 => lastOkMode = -1

C1_Witness == nOk = MaxTx /\ call.op = "toggle_vcom" /\ call.ret = "ok" /\ nFail > 0

(***************************************************************************)
(* C2.  A flush or toggle_vcom that returns an error leaves dirty_lines    *)
(* and vcom as they were before the call, and a successful flush that      *)
(* follows it transmits every line that was dirty before the failed call,  *)
(* with the polarity bit the failed call had.                              *)
(***************************************************************************)
FailedFlushOrToggle(c) == c.op \in {"flush", "toggle_vcom"} /\ c.ret = "err"

C2_FailureKeepsState ==
  [][/\ FailedFlushOrToggle(call') =>
          dirty_lines' = dirty_lines /\ vcom' = vcom
     /\ (FailedFlushOrToggle(call) /\ call'.op = "flush" /\ call'.ret = "ok") =>
          LET W == SpiData(call'.ev)
          IN  /\ VcomBit(W[1][1]) = BoolBit(call.pre.vcom)
              /\ DirtySet(call.pre.dirty_lines) \subseteq {W[k][1] - 1 : k \in 2..(Len(W) - 1)}
    ]_vars

\* a flush has failed after it wrote a line, and the lines are still dirty
C2_Witness ==
  /\ call.op = "flush" /\ call.ret = "err"
  /\ Len(SpiData(call.ev)) >= 2
  /\ DirtySet(dirty_lines) = {0, HEIGHT - 1}

(***************************************************************************)
(* C3.  A clear_display that returns an error commits nothing: the         *)
(* framebuffer, the dirty bitmap and the polarity bit are as before the    *)
(* call.                                                                   *)
(***************************************************************************)
C3_ClearFailureKeepsState ==
  [][(call'.op = "clear_display" /\ call'.ret = "err") =>
        /\ SameBytes(framebuffer', framebuffer)
        /\ dirty_lines' = dirty_lines
        /\ vcom' = vcom
    ]_vars

(***************************************************************************)
(* C4.  After init, a line's dirty bit is set if and only if the line's    *)
(* framebuffer bytes differ from the bytes last transmitted to the panel   *)
(* for that line.                                                          *)
(***************************************************************************)
C4_DirtyIffDiffers ==
  pc = "ready" =>
    \A l \in 0..HEIGHT - 1 :
      (l \in DirtySet(dirty_lines)) <=> (LineBytes(framebuffer, l) # LineBytes(panel, l))

(***************************************************************************)
(* C5.  No lost update: after a successful init, every line whose          *)
(* framebuffer bytes differ from the bytes the panel holds has its dirty   *)
(* bit set, so after a successful flush the panel shows the framebuffer.   *)
(***************************************************************************)
C5_NoLostUpdate ==
  pc = "ready" =>
    \A l \in 0..HEIGHT - 1 :
      (LineBytes(framebuffer, l) # LineBytes(panel, l)) => l \in DirtySet(dirty_lines)

(***************************************************************************)
(* C6.  The polarity bit inverts on every bus transaction: the mode bytes  *)
(* of two consecutive transactions that reached the bus carry different    *)
(* polarity bits, a transaction that returned an error included.           *)
(***************************************************************************)
C6_InvertsOnEveryTransaction ==
  [][(call'.op \in Transactions /\ ModeOnBus(call'.ev) # -1 /\ lastMode # -1) =>
        VcomBit(ModeOnBus(call'.ev)) # VcomBit(lastMode)
    ]_vars

(***************************************************************************)
(* C6, amended.  The mode bytes of two consecutive successful transactions *)
(* carry different polarity bits; a transaction that returns an error does *)
(* not invert the polarity, so the transaction that follows it carries the *)
(* same bit.                                                               *)
(***************************************************************************)
C6_InvertsOnEverySuccess ==
  [][/\ (call'.op \in Transactions /\ call'.ret = "ok" /\ lastOkMode # -1) =>
          VcomBit(ModeOnBus(call'.ev)) # VcomBit(lastOkMode)
     /\ (call'.op \in Transactions /\ call'.ret = "err") => vcom' = vcom
     /\ (/\ call.op \in Transactions /\ call.ret = "err" /\ ModeOnBus(call.ev) # -1
         /\ call'.op \in Transactions /\ ModeOnBus(call'.ev) # -1) =>
          VcomBit(ModeOnBus(call'.ev)) = VcomBit(ModeOnBus(call.ev))
    ]_vars

\* a flush that failed after its mode byte was written has been retried with success
C6_Witness ==
  /\ call.op = "flush" /\ call.ret = "ok" /\ Len(SpiData(call.ev)) > 2
  /\ nFail > 0 /\ nOk = 2
  /\ lastMode = lastOkMode

(***************************************************************************)
(* C7.  Every transaction is bracketed by the select line: bytes go on the *)
(* bus only while it is high, a transaction starts with its low-to-high    *)
(* transition, and when clear_display, toggle_vcom or flush has returned   *)
(* (after init) it is low.                                                 *)
(***************************************************************************)
\* the level of the select line just before hardware call k of ev
CsBefore(ev, k, level) ==
  LET sets == {j \in 1..(k - 1) : ev[j].kind = "cs" /\ ev[j].ok}
  IN  IF sets = {} THEN level
      ELSE ev[CHOOSE j \in sets : \A i \in sets : i <= j].level

C7_SelectBrackets ==
  [][(pc = "ready" /\ call'.op \in BusMethods) =>
        /\ \A k \in 1..Len(call'.ev) :
             (call'.ev[k].kind = "spi" /\ call'.ev[k].ok) => CsBefore(call'.ev, k, cs) = 1
        /\ ModeOnBus(call'.ev) # -1 => cs = 0
        /\ cs' = 0
    ]_vars

(***************************************************************************)
(* C8.  A successful flush with at least one dirty line writes exactly:    *)
(* the mode byte 0x01 | polarity<<1; then for each dirty line and no       *)
(* other, once, in ascending order, the 52 bytes [line+1, the line's 50    *)
(* framebuffer bytes, 0x00]; then one 0x00.  The address is in 1..240.     *)
(***************************************************************************)
C8_FlushWire ==
  [][(call'.op = "flush" /\ call'.ret = "ok" /\ DirtySet(dirty_lines) # {}) =>
        LET ev == call'.ev
            n  == Len(call'.ev)
            D  == DirtySet(dirty_lines)
            P  == 3..(n - 2)
        IN  /\ n = Cardinality(D) + 4
            /\ \A k \in 1..n : ev[k].ok /\ (ev[k].kind = "spi" <=> k \in 2..(n - 1))
            /\ ev[2].data = <<1 + 2 * BoolBit(vcom)>>
            /\ ev[n - 1].data = <<0>>
            /\ \A k \in P :
                 /\ Len(ev[k].data) = BYTES_PER_LINE + 2
                 /\ ev[k].data[1] \in 1..HEIGHT
                 /\ (ev[k].data[1] - 1) \in D
                 /\ SubSeq(ev[k].data, 2, BYTES_PER_LINE + 1)
                      = LineBytes(framebuffer, ev[k].data[1] - 1)
                 /\ ev[k].data[BYTES_PER_LINE + 2] = 0
            /\ \A k \in P : (k + 1) \in P => ev[k].data[1] < ev[k + 1].data[1]
    ]_vars

\* a flush has written the first and the last line of the panel, the last with address 240
C8_Witness ==
  /\ call.op = "flush" /\ call.ret = "ok"
  /\ Len(SpiData(call.ev)) = 4
  /\ SpiData(call.ev)[2][1] = 1
  /\ SpiData(call.ev)[3][1] = HEIGHT
  /\ SpiData(call.ev)[2][2] # 255

(***************************************************************************)
(* C9.  A flush when no line is dirty is a toggle-only transaction: the    *)
(* only bytes it writes are [polarity<<1, 0x00], it writes no write-mode   *)
(* byte and no line, it inverts vcom exactly once when it succeeds, and    *)
(* it leaves the framebuffer and the empty dirty bitmap unchanged.         *)
(***************************************************************************)
C9_EmptyFlushToggles ==
  [][(call'.op = "flush" /\ DirtySet(dirty_lines) = {}) =>
        LET W == SpiData(call'.ev)
        IN  /\ \A k \in 1..Len(call'.ev) :
                 call'.ev[k].kind = "spi" => call'.ev[k].data = <<2 * BoolBit(vcom), 0>>
            /\ Len(W) <= 1
            /\ SameBytes(framebuffer', framebuffer)
            /\ dirty_lines' = dirty_lines
            /\ call'.ret = "ok" => Len(W) = 1 /\ vcom' = ~vcom
            /\ call'.ret = "err" => vcom' = vcom
    ]_vars

\* a flush with nothing dirty has written the toggle-only bytes with the polarity bit set
C9_Witness ==
  /\ call.op = "flush" /\ call.ret = "ok"
  /\ SpiData(call.ev) = << <<VCOM, 0>> >>
  /\ ~vcom
  /\ DirtySet(dirty_lines) = {}

(***************************************************************************)
(* C10.  After a successful flush every dirty bit is clear and the         *)
(* framebuffer is unchanged, and a flush called right after a successful   *)
(* flush writes no write-mode byte and no line.                            *)
(***************************************************************************)
C10_FlushClearsDirty ==
  [][/\ (call'.op = "flush" /\ call'.ret = "ok") =>
          DirtySet(dirty_lines') = {} /\ SameBytes(framebuffer', framebuffer)
     /\ (call.op = "flush" /\ call.ret = "ok" /\ call'.op = "flush") =>
          \A k \in 1..Len(call'.ev) :
            call'.ev[k].kind = "spi" =>
              Len(call'.ev[k].data) = 2 /\ call'.ev[k].data[1] % 2 = 0
    ]_vars

\* a flush that wrote all 240 lines has returned and left no line dirty
C10_Witness ==
  /\ call.op = "flush" /\ call.ret = "ok"
  /\ Len(SpiData(call.ev)) = HEIGHT + 2
  /\ DirtySet(dirty_lines) = {}


(***************************************************************************)
(* C11.  A successful clear_display (init's included) writes exactly the   *)
(* two bytes [0x04 | polarity<<1, 0x00] and nothing else, leaves every     *)
(* framebuffer byte 0xFF and every dirty bit clear, and inverts vcom.      *)
(***************************************************************************)
C11_ClearWire ==
  [][(call'.op \in {"clear_display", "init"} /\ call'.ret = "ok") =>
        /\ SpiData(call'.ev) = << <<4 + 2 * BoolBit(vcom), 0>> >>
        /\ SameBytes(framebuffer', ArrFill(255))
        /\ DirtySet(dirty_lines') = {}
        /\ vcom' = ~vcom
    ]_vars

\* a clear_display with the polarity bit set has returned Ok
C11_Witness ==
  /\ call.op = "clear_display" /\ call.ret = "ok"
  /\ SpiData(call.ev) = << <<CLEAR + VCOM, 0>> >>
  /\ ~vcom
  /\ lastOkMode = CLEAR + VCOM


(***************************************************************************)
(* C12.  For an in-bounds pixel (x < 400, y < 240): set_pixel to a colour  *)
(* other than the pixel's current one gives the pixel that colour, sets    *)
(* the dirty bit of line y and changes no other dirty bit; set_pixel to    *)
(* the current colour leaves framebuffer and dirty bitmap unchanged.       *)
(***************************************************************************)
\* the colour of pixel (x, y) of a framebuffer: TRUE is white
PixelAt(a, x, y) == (ArrAt(a, y * BYTES_PER_LINE + (x \div 8)) \div (2 ^ (x % 8))) % 2 = 1

C12_SetPixelDirty ==
  [][(/\ call'.op = "set_pixel"
      /\ call'.args[1] < WIDTH
      /\ call'.args[2] < HEIGHT) =>
        LET x == call'.args[1]
            y == call'.args[2]
            color == call'.args[3]
        IN  IF PixelAt(framebuffer, x, y) # color
            THEN /\ PixelAt(framebuffer', x, y) = color
                 /\ DirtySet(dirty_lines') = DirtySet(dirty_lines) \cup {y}
            ELSE /\ SameBytes(framebuffer', framebuffer)
                 /\ dirty_lines' = dirty_lines
    ]_vars

\* the last pixel of the last line has been set back to white: the line is dirty
\* and the framebuffer is all white again
C12_Witness ==
  /\ call.op = "set_pixel" /\ call.args = <<WIDTH - 1, HEIGHT - 1, TRUE>>
  /\ DirtySet(dirty_lines) = {HEIGHT - 1}
  /\ SameBytes(framebuffer, ArrFill(255))

(***************************************************************************)
(* C13.  A freshly constructed engine has no dirty line, polarity bit 0    *)
(* and every framebuffer byte 0xFF, and nothing has been put on the bus.   *)
(***************************************************************************)
C13_Fresh ==
  call.op = "new" =>
    /\ DirtySet(dirty_lines) = {}
    /\ \A i \in 0..DIRTY_BITMAP_SIZE - 1 : dirty_lines[i] = 0
    /\ vcom = FALSE
    /\ \A l \in 0..HEIGHT - 1 : LineBytes(framebuffer, l) = [j \in 1..BYTES_PER_LINE |-> 255]
    /\ call.ev = <<>>
    /\ lastMode = -1

\* the engine as the constructor left it, before init
C13_Witness == call.op = "new" /\ pc = "new" /\ nOk = 0 /\ cs = 1

(***************************************************************************)
(* C14.  set_pixel with x >= 400 or y >= 240 changes nothing: framebuffer, *)
(* dirty bitmap and vcom are as before and no hardware call is made.       *)
(* draw_iter never fails and makes no hardware call, and the pixels it is  *)
(* given that have a negative or too large coordinate have no effect.      *)
(***************************************************************************)
InGrid(p) == p.x >= 0 /\ p.x < WIDTH /\ p.y >= 0 /\ p.y < HEIGHT

C14_OutOfBoundsNoOp ==
  [][/\ (call'.op = "set_pixel" /\ (call'.args[1] >= WIDTH \/ call'.args[2] >= HEIGHT)) =>
          /\ SameBytes(framebuffer', framebuffer)
          /\ dirty_lines' = dirty_lines
          /\ vcom' = vcom
          /\ call'.ev = <<>> /\ cs' = cs /\ panel' = panel
     /\ call'.op = "draw_iter" =>
          LET pixels == call'.args[1]
              inside == SelectSeq(pixels, InGrid)
          IN  /\ call'.ret = "ok"
              /\ call'.ev = <<>> /\ cs' = cs /\ panel' = panel
              /\ vcom' = vcom
              /\ DirtySet(dirty_lines') \subseteq
                   DirtySet(dirty_lines) \cup {inside[k].y : k \in 1..Len(inside)}
              /\ inside = <<>> =>
                   SameBytes(framebuffer', framebuffer) /\ dirty_lines' = dirty_lines
    ]_vars

\* draw_iter has been given only pixels outside the grid, one of them with a
\* negative coordinate, on an engine that already had a black pixel
C14_Witness ==
  /\ call.op = "draw_iter"
  /\ Len(call.args[1]) = 3
  /\ SelectSeq(call.args[1], InGrid) = <<>>
  /\ DirtySet(dirty_lines) = {0}
  /\ ~PixelAt(framebuffer, 0, 0)



(***************************************************************************)
(* What the sensor claims read off the last register call.                 *)
(***************************************************************************)
\* the CRC a frame carries in its last two bytes (low byte first) is the CRC of the
\* bytes before them
CrcOk(frame) ==
  frame[Len(frame) - 1] + 256 * frame[Len(frame)]
    = crc16(SubSeq(frame, 1, Len(frame) - 2))
\* the number of positions in which two byte strings of equal length differ
Differences(a, b) == Cardinality({i \in 1..Len(a) : a[i] # b[i]})

(***************************************************************************)
(* C15.  read_register for register r on a driver with address a passes    *)
(* to uart.write exactly one request, the 8 bytes                          *)
(* [a, 0x03, r>>8, r&0xFF, 0x00, 0x01, crc_lo, crc_hi] with crc the CRC16  *)
(* of the first 6, and then, unless a read times out or fails, takes       *)
(* exactly 7 bytes from the transport (never more, and none when the       *)
(* write failed).                                                          *)
(***************************************************************************)
C15_ReadRequest ==
  scall.op = "read_register" =>
    LET tx == scall.out.tx
        rx == scall.out.rx
    IN  /\ Len(tx) = 1
        /\ Len(tx[1]) = 8
        /\ SubSeq(tx[1], 1, 6) = <<address, 3, scall.register \div 256,
                                   scall.register % 256, 0, 1>>
        /\ CrcOk(tx[1])
        /\ Len(rx) <= 7
        /\ scall.out.ret.kind \notin {"Io", "Timeout"} => Len(rx) = 7
        /\ scall.wr = "err" => rx = <<>> /\ scall.out.reads = 0 /\ scall.out.ret.kind = "Io"

\* the request for the water level on address 1, answered with more bytes than the
\* 7 that are taken
C15_Witness ==
  /\ scall.op = "read_register"
  /\ scall.out.tx = << <<1, 3, 0, 3, 0, 1, 116, 10>> >>
  /\ scall.rd # <<>>
  /\ Len(scall.rd[1]) = 9
  /\ Len(scall.out.rx) = 7
  /\ scall.out.ret.kind = "Ok"

(***************************************************************************)
(* C16.  The request of write_register for register r and value v is       *)
(* [addr, 0x06, r_hi, r_lo, v_hi, v_lo, crc_lo, crc_hi]: bytes 2..3 and     *)
(* 4..5 read big-endian give back r and v, and the CRC16 of the first 6    *)
(* bytes is the CRC carried low byte first in bytes 6..7.                  *)
(***************************************************************************)
C16_WriteRequestRoundTrip ==
  scall.op = "write_register" =>
    LET tx == scall.out.tx
    IN  /\ Len(tx) = 1
        /\ Len(tx[1]) = 8
        /\ tx[1][1] = address
        /\ tx[1][2] = 6
        /\ \A i \in 1..8 : tx[1][i] \in 0..255
        /\ tx[1][3] * 256 + tx[1][4] = scall.register
        /\ tx[1][5] * 256 + tx[1][6] = scall.value
        /\ CrcOk(tx[1])

\* the datasheet's request that sets the installation height to 1000
C16_Witness ==
  /\ scall.op = "write_register"
  /\ scall.register = INSTALLATION_HEIGHT /\ scall.value = 1000
  /\ scall.out.tx = << <<1, 6, 0, 5, 3, 232, 153, 117>> >>
  /\ scall.out.ret.kind = "Ok"

(***************************************************************************)
(* C17.  read_register checks the 7 bytes it has read in a fixed order     *)
(* and returns the first failure: CRC (CrcMismatch), exception bit of the  *)
(* function byte (ModbusException with the third byte), address            *)
(* (AddressMismatch), function 0x03 (FunctionMismatch), byte count 2       *)
(* (InvalidLength).                                                        *)
(***************************************************************************)
C17_ValidationOrder ==
  (scall.op = "read_register" /\ Len(scall.out.rx) = 7) =>
    LET r   == scall.out.rx
        ret == scall.out.ret
        crcBad  == ~CrcOk(r)
        excBit  == r[2] >= 128
        addrBad == r[1] # address
        funcBad == r[2] # 3
        lenBad  == r[3] # 2
    IN  /\ crcBad => ret.kind = "CrcMismatch"
        /\ (~crcBad /\ excBit) => ret = [kind |-> "ModbusException", val |-> r[3]]
        /\ (~crcBad /\ ~excBit /\ addrBad) => ret.kind = "AddressMismatch"
        /\ (~crcBad /\ ~excBit /\ ~addrBad /\ funcBad) => ret.kind = "FunctionMismatch"
        /\ (~crcBad /\ ~excBit /\ ~addrBad /\ ~funcBad /\ lenBad) => ret.kind = "InvalidLength"
        /\ (~crcBad /\ ~excBit /\ ~addrBad /\ ~funcBad /\ ~lenBad) => ret.kind = "Ok"

\* a response with a right CRC whose address, function and byte count are all wrong
C17_Witness ==
  /\ scall.op = "read_register"
  /\ Len(scall.out.rx) = 7
  /\ CrcOk(scall.out.rx)
  /\ scall.out.rx[1] # address /\ scall.out.rx[2] = 6 /\ scall.out.rx[3] = 0
  /\ scall.out.ret.kind = "AddressMismatch"

(***************************************************************************)
(* C18.  For a well-formed 7-byte response (right CRC, the driver's        *)
(* address, function 0x03, byte count 2) read_register returns Ok with     *)
(* data_hi * 256 + data_lo of bytes 3 and 4.                               *)
(***************************************************************************)
C18_ReadValue ==
  (/\ scall.op = "read_register"
   /\ Len(scall.out.rx) = 7
   /\ CrcOk(scall.out.rx)
   /\ SubSeq(scall.out.rx, 1, 3) = <<address, 3, 2>>) =>
     scall.out.ret = [kind |-> "Ok", val |-> scall.out.rx[4] * 256 + scall.out.rx[5]]

\* the data bytes 0x80 0xFF have been read as 33023
C18_Witness ==
  /\ scall.op = "read_register"
  /\ Len(scall.out.rx) = 7
  /\ SubSeq(scall.out.rx, 4, 5) = <<128, 255>>
  /\ scall.out.ret = [kind |-> "Ok", val |-> 33023]

(***************************************************************************)
(* C19.  A response that differs from a well-formed response in exactly    *)
(* one byte (any of the 7, any other value) never gives Ok: read_register  *)
(* returns CrcMismatch.                                                    *)
(***************************************************************************)
C19_SingleByteChange ==
  (/\ scall.op = "read_register"
   /\ Len(scall.out.rx) = 7
   /\ \E base \in BaseResponses(address) : Differences(scall.out.rx, base) = 1) =>
     scall.out.ret.kind = "CrcMismatch"

\* the low data byte of a well-formed response has been changed
C19_Witness ==
  /\ scall.op = "read_register"
  /\ Len(scall.out.rx) = 7
  /\ Differences(scall.out.rx, BaseResponse(address)) = 1
  /\ scall.out.rx[5] # BaseResponse(address)[5]
  /\ scall.out.ret.kind = "CrcMismatch"

(***************************************************************************)
(* C20.  When the device answers a read or write request with a 5-byte     *)
(* exception frame [addr, function | 0x80, code, crc_lo, crc_hi] with a    *)
(* right CRC, the call returns ModbusException(code).                      *)
(***************************************************************************)
C20_ExceptionReported ==
  (/\ scall.op \in {"read_register", "write_register"}
   /\ scall.wr = "ok"
   /\ scall.rd # <<>>
   /\ Len(scall.rd[1]) = 5
   /\ CrcOk(scall.rd[1])
   /\ scall.rd[1][1] = address
   /\ scall.rd[1][2] = 128 + (IF scall.op = "read_register" THEN 3 ELSE 6)) =>
     scall.out.ret = [kind |-> "ModbusException", val |-> scall.rd[1][3]]


(***************************************************************************)
(* C21.  write_register takes exactly 8 response bytes and checks them in  *)
(* the order CRC (CrcMismatch), exception bit (ModbusException with the    *)
(* third byte), address (AddressMismatch), function 0x06                   *)
(* (FunctionMismatch); it returns Ok exactly when all four pass and never  *)
(* InvalidLength.                                                          *)
(***************************************************************************)
C21_WriteValidationOrder ==
  scall.op = "write_register" =>
    LET r   == scall.out.rx
        ret == scall.out.ret
    IN  /\ Len(r) <= 8
        /\ ret.kind # "InvalidLength"
        /\ ret.kind \notin {"Io", "Timeout"} <=> Len(r) = 8
        /\ Len(r) = 8 =>
             LET crcBad  == ~CrcOk(r)
                 excBit  == r[2] >= 128
                 addrBad == r[1] # address
                 funcBad == r[2] # 6
             IN  /\ crcBad => ret.kind = "CrcMismatch"
                 /\ (~crcBad /\ excBit) => ret = [kind |-> "ModbusException", val |-> r[3]]
                 /\ (~crcBad /\ ~excBit /\ addrBad) => ret.kind = "AddressMismatch"
                 /\ (~crcBad /\ ~excBit /\ ~addrBad /\ funcBad) => ret.kind = "FunctionMismatch"
                 /\ (~crcBad /\ ~excBit /\ ~addrBad /\ ~funcBad) <=> ret.kind = "Ok"

\* an 8-byte response with a right CRC whose address and function are both wrong
C21_Witness ==
  /\ scall.op = "write_register"
  /\ Len(scall.out.rx) = 8
  /\ CrcOk(scall.out.rx)
  /\ scall.out.rx[1] # address /\ scall.out.rx[2] = 3
  /\ scall.out.ret.kind = "AddressMismatch"

(***************************************************************************)
(* C22.  write_register returns Ok only when the response echoes the       *)
(* request: the register and value fields (bytes 2..5) of the 8 bytes read *)
(* equal those of the request that was written.                            *)
(***************************************************************************)
C22_OkOnlyOnEcho ==
  (scall.op = "write_register" /\ scall.out.ret.kind = "Ok") =>
    SubSeq(scall.out.rx, 3, 6) = SubSeq(scall.out.tx[1], 3, 6)


\* the bytes of the read results rd[from..] up to the first read of zero bytes or
\* failing read
RECURSIVE Arrived(_, _)
Arrived(rd, from) ==
  IF from > Len(rd) THEN <<>>
  ELSE IF rd[from] = <<>> \/ rd[from] = IoErr THEN <<>>
  ELSE rd[from] \o Arrived(rd, from + 1)

\* the number of response bytes a register call waits for
Target(op) == IF op = "read_register" THEN 7 ELSE 8

(***************************************************************************)
(* C23.  The exact-length read collects the bytes in arrival order over    *)
(* any split of the response into reads and succeeds only with the full    *)
(* count; a read of zero bytes before completion, also after some bytes,   *)
(* gives Timeout; a failing request write or a failing read gives Io; in   *)
(* these error cases the call returns no value and validates nothing.      *)
(***************************************************************************)
C23_ExactRead ==
  scall.op \in {"read_register", "write_register"} =>
    LET n   == Target(scall.op)
        a   == Arrived(scall.rd, 1)
        out == scall.out
        \* TRUE when the first read that brings no byte is a failing one
        StopIsError == \E i \in 1..Len(scall.rd) :
                         /\ scall.rd[i] = IoErr
                         /\ \A j \in 1..(i - 1) : scall.rd[j] # <<>> /\ scall.rd[j] # IoErr
    IN  /\ scall.wr # "ok" => out.ret = [kind |-> "Io", val |-> 0] /\ out.rx = <<>>
        /\ (scall.wr = "ok" /\ Len(a) >= n) =>
              /\ out.rx = SubSeq(a, 1, n)
              /\ out.ret.kind \notin {"Timeout", "Io"}
        /\ (scall.wr = "ok" /\ Len(a) < n) =>
              /\ out.rx = a
              /\ out.ret = [kind |-> IF StopIsError THEN "Io" ELSE "Timeout",
                            val |-> 0]
        /\ out.ret.kind = "Ok" => Len(out.rx) = n

\* a response that arrives in three reads and is accepted
C23_Witness ==
  /\ scall.op = "read_register"
  /\ Len(scall.rd) = 3
  /\ scall.out.reads = 3
  /\ scall.out.ret.kind = "Ok"

(***************************************************************************)
(* C24.  Every register call ends: read_exact makes at most as many        *)
(* uart.read calls as bytes it waits for (7 for a read, 8 for a write),    *)
(* each of which brings at least one byte, none, or fails, and the call    *)
(* ends in a result, Timeout or Io.                                        *)
(***************************************************************************)
C24_ReadsBounded ==
  scall.op \in {"read_register", "write_register"} =>
    /\ scall.out.reads <= Target(scall.op)
    /\ scall.out.reads <= Len(scall.out.rx) + 1
    /\ scall.out.ret.kind \in {"Timeout", "Io"} <=> Len(scall.out.rx) < Target(scall.op)
    /\ scall.out.ret.kind \in {"Ok", "Timeout", "Io", "CrcMismatch", "ModbusException",
                               "AddressMismatch", "FunctionMismatch", "InvalidLength"}

\* a response that arrives one byte per read
C24_Witness ==
  /\ scall.op = "write_register"
  /\ scall.out.reads = 8
  /\ scall.out.ret.kind = "Ok"


(***************************************************************************)
(* C25.  No retry inside a call: a register read or write makes one        *)
(* uart.write, of one request frame of 8 bytes, whatever the outcome       *)
(* (success, CrcMismatch, Timeout, Io, exception, mismatch); no second     *)
(* request is sent within the call.                                        *)
(***************************************************************************)
C25_OneRequest ==
  scall.op \in {"read_register", "write_register"} =>
    /\ Len(scall.out.tx) = 1
    /\ Len(scall.out.tx[1]) = 8
    /\ CrcOk(scall.out.tx[1])
    /\ scall.out.tx[1][1] = address
    /\ scall.out.tx[1][2] = (IF scall.op = "read_register" THEN 3 ELSE 6)
    /\ U16(scall.out.tx[1][3], scall.out.tx[1][4]) = scall.register

\* a read whose answer never came: the request was written once
C25_Witness ==
  /\ scall.op = "read_register"
  /\ scall.wr = "ok"
  /\ scall.out.ret.kind = "Timeout"
  /\ scall.out.rx = <<>>
  /\ Len(scall.out.tx) = 1


(***************************************************************************)
(* Sensor part 3: the named accessors of Sen0676.  Each takes the driver's *)
(* address and the transport's answers and returns the call's outcome and  *)
(* the driver's address after the call.                                    *)
(***************************************************************************)
After(addr, out) == [out |-> out, address |-> addr]

\* `?` followed by a conversion of the value read
MapOk(out, v) == IF out.ret.kind = "Ok" THEN [out EXCEPT !.ret = Ok(v)] ELSE out

read_empty_height(addr, wr, rd) == After(addr, read_register(addr, EMPTY_HEIGHT, wr, rd))

\* the water level read from the empty height register
read_water_level_wrong_register(addr, wr, rd) ==
  After(addr, read_register(addr, EMPTY_HEIGHT, wr, rd))

read_water_level(addr, wr, rd) == After(addr, read_register(addr, WATER_LEVEL, wr, rd))

read_installation_height(addr, wr, rd) ==
  After(addr, read_register(addr, INSTALLATION_HEIGHT, wr, rd))

set_installation_height(addr, cm, wr, rd) ==
  After(addr, write_register(addr, INSTALLATION_HEIGHT, cm, wr, rd))

\* `value as u8`
read_device_address(addr, wr, rd) ==
  LET out == read_register(addr, DEVICE_ADDRESS, wr, rd)
  IN  After(addr, MapOk(out, out.ret.val % 256))

\* 0xFE and 0xFF let through
set_device_address_no_upper(addr, a, wr, rd) ==
  IF a = 0 THEN After(addr, Outcome(Err("InvalidAddress"), <<>>, <<>>, 0))
  ELSE LET out == write_register(addr, DEVICE_ADDRESS, a, wr, rd)
       IN  After(IF out.ret.kind = "Ok" THEN a ELSE addr, out)

\* self.address assigned before the write is known to have succeeded
set_device_address_eager(addr, a, wr, rd) ==
  IF a = 0 \/ a > 253 THEN After(addr, Outcome(Err("InvalidAddress"), <<>>, <<>>, 0))
  ELSE After(a, write_register(addr, DEVICE_ADDRESS, a, wr, rd))

set_device_address(addr, a, wr, rd) ==
  IF a = 0 \/ a > 253 THEN After(addr, Outcome(Err("InvalidAddress"), <<>>, <<>>, 0))
  ELSE LET out == write_register(addr, DEVICE_ADDRESS, a, wr, rd)
       IN  After(IF out.ret.kind = "Ok" THEN a ELSE addr, out)

\* the product kept in 16 bits
read_baud_rate_u16(addr, wr, rd) ==
  LET out == read_register(addr, BAUD_RATE, wr, rd)
  IN  After(addr, MapOk(out, (out.ret.val * 100) % 65536))

\* `value as u32 * 100`: a u16 times 100 is below 2^32, nothing wraps
read_baud_rate(addr, wr, rd) ==
  LET out == read_register(addr, BAUD_RATE, wr, rd)
  IN  After(addr, MapOk(out, out.ret.val * 100))

\* the match of set_baud_rate: the register value of a supported rate, -1 for `_`
baud_value(baud) ==
  CASE baud = 4800 -> 48
    [] baud = 9600 -> 96
    [] baud = 14400 -> 144
    [] baud = 19200 -> 192
    [] baud = 38400 -> 384
    [] baud = 56000 -> 560
    [] baud = 57600 -> 576
    [] baud = 115200 -> 1152
    [] baud = 129000 -> 1290
    [] OTHER -> -1

\* every rate divisible by 100 accepted
set_baud_rate_any_hundred(addr, baud, wr, rd) ==
  IF baud % 100 # 0 \/ baud = 0
  THEN After(addr, Outcome(Err("InvalidBaudRate"), <<>>, <<>>, 0))
  ELSE After(addr, write_register(addr, BAUD_RATE, (baud \div 100) % 65536, wr, rd))

set_baud_rate(addr, baud, wr, rd) ==
  IF baud_value(baud) < 0 THEN After(addr, Outcome(Err("InvalidBaudRate"), <<>>, <<>>, 0))
  ELSE After(addr, write_register(addr, BAUD_RATE, baud_value(baud), wr, rd))

read_range(addr, wr, rd) == After(addr, read_register(addr, RANGE, wr, rd))

set_range(addr, meters, wr, rd) == After(addr, write_register(addr, RANGE, meters, wr, rd))

\* `ch >= 0x20 && ch < 0x7F` with the upper limit left out
printable_no_upper(ch) == ch >= 32

printable(ch) == ch >= 32 /\ ch < 127

\* str::trim on a line of printable ASCII: the spaces at both ends go
RECURSIVE trim_start(_)
trim_start(line) ==
  IF line # <<>> /\ Head(line) = 32 THEN trim_start(Tail(line)) ELSE line

RECURSIVE trim_end(_)
trim_end(line) ==
  IF line # <<>> /\ line[Len(line)] = 32
  THEN trim_end(SubSeq(line, 1, Len(line) - 1)) ELSE line

trim(line) == trim_end(trim_start(line))

\* the loop of drain_ascii_messages with its one-byte buffer: line is the String
\* collected so far, log the lines given to info!, rx the bytes read, rd the read
\* results still to come (a result of several bytes is taken one byte per read)
RECURSIVE drain_loop(_, _, _, _, _)
drain_loop(line, log, rx, rd, reads) ==
  IF rd = <<>> \/ Head(rd) = <<>> \/ Head(rd) = IoErr
  THEN [ret |-> Ok(0), tx |-> <<>>, rx |-> rx, reads |-> reads + 1,
        log |-> IF line # <<>> THEN Append(log, trim(line)) ELSE log]
  ELSE LET ch   == Head(rd)[1]
           rest == IF Len(Head(rd)) = 1 THEN Tail(rd)
                   ELSE <<Tail(Head(rd))>> \o Tail(rd)
       IN  IF ch = 10
           THEN IF line # <<>>
                THEN drain_loop(<<>>, Append(log, trim(line)), Append(rx, ch), rest, reads + 1)
                ELSE drain_loop(line, log, Append(rx, ch), rest, reads + 1)
           ELSE IF printable(ch)
           THEN drain_loop(Append(line, ch), log, Append(rx, ch), rest, reads + 1)
           ELSE drain_loop(line, log, Append(rx, ch), rest, reads + 1)

drain_ascii_messages(addr, rd) == After(addr, drain_loop(<<>>, <<>>, <<>>, rd, 0))


(***************************************************************************)
(* FacadeSpec: any sequence of accessor calls on one driver, which starts  *)
(* with DEFAULT_ADDRESS; the device's answers are drawn from samples built *)
(* for the driver's address at the time of the call.                       *)
(***************************************************************************)
NewAddresses == {0, 1, 2, 253, 254, 255}

BaudRates ==
  {4800, 9600, 14400, 19200, 38400, 56000, 57600, 115200, 129000}
  \cup {0, 48, 1152, 100000, 115201, 128000, 6558400}

OtherAddress(addr) == (addr % 253) + 1

FacadeReadAnswers(addr) ==
  {<<ReadResponse(addr, hi, lo)>> : <<hi, lo>> \in {<<3, 232>>, <<1, 44>>, <<4, 128>>}}
  \cup {<<>>,
        <<ReadResponse(OtherAddress(addr), 3, 232)>>,
        <<SetAt(ReadResponse(addr, 3, 232), 5, 233)>>,
        <<ExceptionFrame(addr, READ_HOLDING_REGISTERS, 2) \o <<0, 0>> >>}

FacadeWriteAnswers(addr, register, value) ==
  LET echo == Request(addr, WRITE_SINGLE_REGISTER, register, value)
  IN  {<<echo>>, <<>>,
       <<SubSeq(echo, 1, 5), SubSeq(echo, 6, 8)>>,
       <<Request(OtherAddress(addr), WRITE_SINGLE_REGISTER, register, value)>>,
       <<Request(addr, WRITE_SINGLE_REGISTER, register, (value + 1) % 65536)>>,
       <<ExceptionFrame(addr, WRITE_SINGLE_REGISTER, 3) \o <<0, 0, 0>> >>}

\* what the sensor may say in ASCII: "Hi\r\n", lines in several reads with a partial
\* last line, control and high bytes, spaces at the ends, empty lines, a read of zero
\* bytes or a failing read with bytes after it
DrainScripts ==
  {<<>>, <<IoErr>>,
   << <<72, 105, 13, 10>> >>,
   << <<72>>, <<105>>, <<10>>, <<79, 75>> >>,
   << <<7, 200, 65, 127, 10, 10, 66>> >>,
   << <<32, 65, 32, 66, 32, 10>> >>,
   << <<32, 10, 65>> >>,
   << <<65, 66>>, <<>>, <<67, 10>> >>,
   << <<65>>, IoErr, <<66>> >>,
   << <<10, 13, 10>> >>,
   << <<126, 31, 9, 10, 255, 0, 128>> >>,
   << <<1, 3, 2, 3, 232, 184, 250>> >>}

FacadeInit ==
  /\ RegisterInit
  /\ address = DEFAULT_ADDRESS

FacadeCall(op, value, wr, rd, res) ==
  /\ scall' = [op |-> op, value |-> value, wr |-> wr, rd |-> rd, out |-> res.out]
  /\ address' = res.address
  /\ UNCHANGED dvars
  /\ UNCHANGED <<net, info_until>>

\* the transport's side of a call: either uart.write fails, or it succeeds and the
\* reads return one of the sampled answers
Lines(answers) == {<<"err", <<>> >>} \cup {<<"ok", rd>> : rd \in answers}

\* the same with one answer only
ShortLines(answer) == {<<"err", <<>> >>, <<"ok", <<answer>> >>, <<"ok", <<>> >>}

ReadEmptyHeight ==
  \E l \in ShortLines(ReadResponse(address, 3, 232)) :
    FacadeCall("read_empty_height", 0, l[1], l[2], read_empty_height(address, l[1], l[2]))

ReadWaterLevel ==
  \E l \in ShortLines(ReadResponse(address, 3, 232)) :
    FacadeCall("read_water_level", 0, l[1], l[2], read_water_level(address, l[1], l[2]))

ReadInstallationHeight ==
  \E l \in ShortLines(ReadResponse(address, 1, 44)) :
    FacadeCall("read_installation_height", 0, l[1], l[2],
               read_installation_height(address, l[1], l[2]))

SetInstallationHeight ==
  \E cm \in {0, 300, 65535} :
    \E l \in IF cm = 300 THEN Lines(FacadeWriteAnswers(address, INSTALLATION_HEIGHT, cm))
             ELSE ShortLines(Request(address, WRITE_SINGLE_REGISTER, INSTALLATION_HEIGHT, cm)) :
      FacadeCall("set_installation_height", cm, l[1], l[2],
                 set_installation_height(address, cm, l[1], l[2]))

ReadDeviceAddress ==
  \E l \in Lines(FacadeReadAnswers(address)) :
    FacadeCall("read_device_address", 0, l[1], l[2],
               read_device_address(address, l[1], l[2]))

SetDeviceAddress ==
  \E a \in NewAddresses :
    \E l \in IF a \in 1..253 THEN Lines(FacadeWriteAnswers(address, DEVICE_ADDRESS, a))
             ELSE ShortLines(Request(address, WRITE_SINGLE_REGISTER, DEVICE_ADDRESS, a)) :
      FacadeCall("set_device_address", a, l[1], l[2],
                 set_device_address(address, a, l[1], l[2]))

\* the answers of a device whose register holds the value of a supported rate, 0 or
\* 0xFFFF are sampled too
ReadBaudRate ==
  \E l \in Lines(FacadeReadAnswers(address))
           \cup {<<"ok", <<ReadResponse(address, HiByte(v), LoByte(v))>> >> :
                   v \in {0, 48, 96, 144, 192, 384, 560, 576, 1152, 1290, 65535}} :
    FacadeCall("read_baud_rate", 0, l[1], l[2], read_baud_rate(address, l[1], l[2]))

SetBaudRate ==
  \E baud \in BaudRates :
    \E l \in IF baud = 115200 THEN Lines(FacadeWriteAnswers(address, BAUD_RATE, 1152))
             ELSE ShortLines(Request(address, WRITE_SINGLE_REGISTER, BAUD_RATE,
                                     (baud \div 100) % 65536)) :
      FacadeCall("set_baud_rate", baud, l[1], l[2],
                 set_baud_rate(address, baud, l[1], l[2]))

ReadRange ==
  \E l \in ShortLines(ReadResponse(address, 0, 10)) :
    FacadeCall("read_range", 0, l[1], l[2], read_range(address, l[1], l[2]))

SetRange ==
  \E meters \in {0, 10} :
    \E l \in IF meters = 10 THEN Lines(FacadeWriteAnswers(address, RANGE, meters))
             ELSE ShortLines(Request(address, WRITE_SINGLE_REGISTER, RANGE, meters)) :
      FacadeCall("set_range", meters, l[1], l[2], set_range(address, meters, l[1], l[2]))

DrainAsciiMessages ==
  \E rd \in DrainScripts :
    FacadeCall("drain_ascii_messages", 0, "ok", rd, drain_ascii_messages(address, rd))

FacadeNext ==
  \/ ReadEmptyHeight
  \/ ReadWaterLevel
  \/ ReadInstallationHeight
  \/ SetInstallationHeight
  \/ ReadDeviceAddress
  \/ SetDeviceAddress
  \/ ReadBaudRate
  \/ SetBaudRate
  \/ ReadRange
  \/ SetRange
  \/ DrainAsciiMessages

FacadeSpec == FacadeInit /\ [][FacadeNext]_vars


(***************************************************************************)
(* C26.  set_device_address(a) with a = 0 or a > 0xFD fails with           *)
(* InvalidAddress, makes no uart.write and no uart.read, and leaves the    *)
(* driver's address as it was.                                             *)
(***************************************************************************)
C26_InvalidAddressRejected ==
  [][(scall'.op = "set_device_address" /\ (scall'.value = 0 \/ scall'.value > 253)) =>
       /\ scall'.out.ret = [kind |-> "InvalidAddress", val |-> 0]
       /\ scall'.out.tx = <<>>
       /\ scall'.out.rx = <<>>
       /\ scall'.out.reads = 0
       /\ address' = address]_vars

\* 0xFE refused on a driver whose address is no longer the default
C26_Witness ==
  /\ scall.op = "set_device_address"
  /\ scall.value = 254
  /\ scall.out.ret.kind = "InvalidAddress"
  /\ address = 2

(***************************************************************************)
(* C27.  set_device_address(a) with a in 0x01..0xFD writes register 0x03F4 *)
(* with value a in a frame that carries the driver's old address, and the  *)
(* driver's address becomes a only when that write succeeds; after any     *)
(* error it is unchanged.  Every request carries the address the driver    *)
(* has when the call is made, that address is the one expected in the      *)
(* response, and no other accessor changes it.                             *)
(***************************************************************************)
C27_AddressFollowsWrite ==
  [][
     /\ (scall'.op = "set_device_address" /\ scall'.value \in 1..253) =>
          /\ Len(scall'.out.tx) = 1
          /\ SubSeq(scall'.out.tx[1], 1, 6) = <<address, 6, 3, 244, 0, scall'.value>>
          /\ CrcOk(scall'.out.tx[1])
          /\ address' = (IF scall'.out.ret.kind = "Ok" THEN scall'.value ELSE address)
     /\ scall'.op # "set_device_address" => address' = address
     /\ scall'.out.tx # <<>> => scall'.out.tx[1][1] = address
     /\ (scall'.out.ret.kind = "Ok" /\ scall'.out.tx # <<>>) => scall'.out.rx[1] = address
     /\ (/\ scall'.out.tx # <<>>
         /\ Len(scall'.out.rx) = (IF scall'.out.tx[1][2] = 3 THEN 7 ELSE 8)
         /\ CrcOk(scall'.out.rx)
         /\ scall'.out.rx[2] < 128
         /\ scall'.out.rx[1] # address) => scall'.out.ret.kind = "AddressMismatch"
    ]_vars

\* after a successful change to 2 a request goes out with address 2 and is answered
C27_Witness ==
  /\ address = 2
  /\ scall.op = "read_device_address"
  /\ scall.out.tx # <<>>
  /\ scall.out.tx[1][1] = 2
  /\ scall.out.ret.kind = "Ok"

(***************************************************************************)
(* C28.  set_baud_rate(b) for a supported b makes exactly one write        *)
(* request, to register 0x03F6 with value b / 100; for every other b it    *)
(* returns InvalidBaudRate without a uart.write or uart.read.              *)
(***************************************************************************)
C28_BaudRateTable ==
  scall.op = "set_baud_rate" =>
    IF scall.value \in {4800, 9600, 14400, 19200, 38400, 56000, 57600, 115200, 129000}
    THEN /\ Len(scall.out.tx) = 1
         /\ SubSeq(scall.out.tx[1], 2, 6) =
              <<6, 3, 246, (scall.value \div 100) \div 256, (scall.value \div 100) % 256>>
         /\ CrcOk(scall.out.tx[1])
         /\ scall.out.ret.kind # "InvalidBaudRate"
    ELSE /\ scall.out.ret = [kind |-> "InvalidBaudRate", val |-> 0]
         /\ scall.out.tx = <<>>
         /\ scall.out.rx = <<>>
         /\ scall.out.reads = 0

\* 115200 written as 1152 = 0x0480 and acknowledged
C28_Witness ==
  /\ scall.op = "set_baud_rate"
  /\ scall.value = 115200
  /\ scall.out.tx # <<>>
  /\ SubSeq(scall.out.tx[1], 3, 6) = <<3, 246, 4, 128>>
  /\ scall.out.ret.kind = "Ok"

\* the pieces of bytes between its newlines
RECURSIVE SplitAtNewline(_)
SplitAtNewline(bytes) ==
  IF \A i \in 1..Len(bytes) : bytes[i] # 10 THEN <<bytes>>
  ELSE LET i == CHOOSE k \in 1..Len(bytes) :
                  bytes[k] = 10 /\ \A j \in 1..(k - 1) : bytes[j] # 10
       IN  <<SubSeq(bytes, 1, i - 1)>> \o SplitAtNewline(SubSeq(bytes, i + 1, Len(bytes)))

\* the lines logged for the bytes read: of each piece its printable characters
\* (0x20..0x7E), when there are any, without the spaces at the ends
ExpectedLog(bytes) ==
  LET IsText(c) == c \in 32..126
      HasText(line) == line # <<>>
      Stripped(line) ==
        LET inked == {i \in 1..Len(line) : line[i] # 32}
        IN  IF inked = {} THEN <<>>
            ELSE SubSeq(line, CHOOSE i \in inked : \A j \in inked : i <= j,
                              CHOOSE i \in inked : \A j \in inked : i >= j)
      pieces == SplitAtNewline(bytes)
      texts  == SelectSeq([k \in 1..Len(pieces) |-> SelectSeq(pieces[k], IsText)], HasText)
  IN  [k \in 1..Len(texts) |-> Stripped(texts[k])]

(***************************************************************************)
(* C29.  drain_ascii_messages reads single bytes and stops at the first    *)
(* read that returns zero bytes or fails; it never writes to the           *)
(* transport and never changes the driver's address; bytes outside         *)
(* 0x20..0x7E other than newline are dropped; a line is logged only from   *)
(* collected printable characters: at a newline when there are some, and   *)
(* once at the end for a partial line.                                     *)
(***************************************************************************)
C29_DrainAscii ==
  [][scall'.op = "drain_ascii_messages" =>
       /\ scall'.out.tx = <<>>
       /\ address' = address
       /\ scall'.out.rx = Arrived(scall'.rd, 1)
       /\ scall'.out.reads = Len(scall'.out.rx) + 1
       /\ scall'.out.log = ExpectedLog(scall'.out.rx)
       /\ \A k \in 1..Len(scall'.out.log) :
            \A i \in 1..Len(scall'.out.log[k]) : scall'.out.log[k][i] \in 32..126]_vars

\* "A" and "B" logged from bytes among which are 0x07, 0xC8, 0x7F and an empty line
C29_Witness ==
  /\ scall.op = "drain_ascii_messages"
  /\ scall.out.rx = <<7, 200, 65, 127, 10, 10, 66>>
  /\ scall.out.log = << <<65>>, <<66>> >>

\* register and function code of each accessor, from its documentation in the
\* register map
RegisterMap ==
  [read_empty_height        |-> <<1, 3>>,
   read_water_level         |-> <<3, 3>>,
   read_installation_height |-> <<5, 3>>,
   set_installation_height  |-> <<5, 6>>,
   read_device_address      |-> <<1012, 3>>,
   set_device_address       |-> <<1012, 6>>,
   read_baud_rate           |-> <<1014, 3>>,
   set_baud_rate            |-> <<1014, 6>>,
   read_range               |-> <<2004, 3>>,
   set_range                |-> <<2004, 6>>]

(***************************************************************************)
(* C30.  Each named accessor makes exactly one request, with the register  *)
(* address and function code of the register map (a call refused for its   *)
(* argument, InvalidAddress or InvalidBaudRate, makes none); registers      *)
(* 0x0001 and 0x0003 are never the target of a write request.              *)
(***************************************************************************)
C30_RegisterMap ==
  /\ scall.op \in DOMAIN RegisterMap =>
       /\ Len(scall.out.tx) <= 1
       /\ scall.out.tx = <<>> <=> scall.out.ret.kind \in {"InvalidAddress", "InvalidBaudRate"}
       /\ scall.out.tx # <<>> =>
            /\ U16(scall.out.tx[1][3], scall.out.tx[1][4]) = RegisterMap[scall.op][1]
            /\ scall.out.tx[1][2] = RegisterMap[scall.op][2]
  /\ (scall.op # "new" /\ scall.out.tx # <<>> /\ scall.out.tx[1][2] = 6) =>
       U16(scall.out.tx[1][3], scall.out.tx[1][4]) \notin {1, 3}

\* the water level asked for with 01 03 00 03 and received
C30_Witness ==
  /\ scall.op = "read_water_level"
  /\ scall.out.tx # <<>>
  /\ SubSeq(scall.out.tx[1], 1, 4) = <<1, 3, 0, 3>>
  /\ scall.out.ret = [kind |-> "Ok", val |-> 1000]


(***************************************************************************)
(* C33.  For every (x, y) inside the grid, set_pixel(x, y, c) touches only *)
(* bit x mod 8 of framebuffer byte y * 50 + x / 8 (bit 0 is the leftmost   *)
(* pixel of the byte), which becomes 1 for c = true and 0 for c = false;   *)
(* every other bit of the framebuffer stays, and the byte index is within  *)
(* the 12000 bytes of the buffer.                                          *)
(***************************************************************************)
C33_SetPixelBit ==
  [][(/\ call'.op = "set_pixel"
      /\ call'.args[1] < WIDTH
      /\ call'.args[2] < HEIGHT) =>
        LET x == call'.args[1]
            y == call'.args[2]
            b == y * 50 + (x \div 8)
            w == 2 ^ (x % 8)
            old == ArrAt(framebuffer, b)
            had == (old \div w) % 2
        IN  /\ b >= 0 /\ b < 12000
            /\ b < FRAMEBUFFER_SIZE
            /\ ArrAt(framebuffer', b) = old - had * w + BoolBit(call'.args[3]) * w
            /\ \A l \in (0..HEIGHT - 1) \ {y} :
                 ArrChunk(framebuffer', l) = ArrChunk(framebuffer, l)
            /\ \A j \in (1..BYTES_PER_LINE) \ {(x \div 8) + 1} :
                 ArrChunk(framebuffer', y)[j] = ArrChunk(framebuffer, y)[j]
    ]_vars

\* pixel 9 of the last line made dark in a white buffer: bit 1 of byte 239 * 50 + 1
C33_Witness ==
  /\ call.op = "set_pixel" /\ call.args = <<9, HEIGHT - 1, FALSE>>
  /\ ArrAt(framebuffer, 239 * 50 + 1) = 253
  /\ ArrAt(framebuffer, 239 * 50) = 255


(***************************************************************************)
(* C32 as stated.  After mark_all_dirty, clear_framebuffer or fill_black   *)
(* all 240 lines are dirty, and the successful flush that comes next       *)
(* transmits all 240 lines.                                                *)
(***************************************************************************)
C32_AllDirtyAfterMarking ==
  [][/\ call'.op \in {"mark_all_dirty", "clear_framebuffer", "fill_black"} =>
          DirtySet(dirty_lines') = 0..(HEIGHT - 1)
     /\ (/\ call.op \in {"mark_all_dirty", "clear_framebuffer", "fill_black"}
         /\ call'.op = "flush" /\ call'.ret = "ok") => Len(call'.ev) = HEIGHT + 4
    ]_vars

(***************************************************************************)
(* C32, amended.  mark_all_dirty and clear_framebuffer leave all 240 lines *)
(* dirty and the bitmap has no bit beyond line 239; fill_black marks all   *)
(* lines and flushes them itself, so a successful fill_black leaves no     *)
(* line dirty and a failed one leaves all of them dirty.  A successful     *)
(* flush that starts with all lines dirty, fill_black's own included,      *)
(* transmits all 240 lines with addresses 1..240 in ascending order,       *)
(* whatever the framebuffer holds; until then buffer operations, toggles   *)
(* and failed flushes keep all lines dirty.                                *)
(***************************************************************************)
C32_FullRedraw ==
  [][/\ call'.op \in {"mark_all_dirty", "clear_framebuffer"} =>
          /\ DOMAIN dirty_lines' = 0..29
          /\ \A i \in 0..29 : dirty_lines'[i] = 255
          /\ DirtySet(dirty_lines') = 0..239
     /\ call'.op = "fill_black" =>
          DirtySet(dirty_lines') = (IF call'.ret = "ok" THEN {} ELSE 0..239)
     /\ (/\ call'.op \in {"flush", "fill_black"}
         /\ call'.ret = "ok"
         /\ call'.op = "flush" => DirtySet(dirty_lines) = 0..239) =>
          /\ Len(call'.ev) = 244
          /\ \A k \in 3..242 :
               /\ call'.ev[k].kind = "spi" /\ call'.ev[k].ok
               /\ call'.ev[k].data[1] = k - 2
               /\ SubSeq(call'.ev[k].data, 2, 51) = ArrChunk(framebuffer', k - 3)
     /\ (/\ DirtySet(dirty_lines) = 0..239
         /\ \/ call'.op \in {"set_pixel", "mark_all_dirty", "clear_framebuffer", "toggle_vcom"}
            \/ call'.op = "flush" /\ call'.ret = "err") =>
          DirtySet(dirty_lines') = 0..239
    ]_vars

\* a flush has sent all 240 lines of a framebuffer that is not all white
C32_Witness ==
  /\ call.op = "flush" /\ call.ret = "ok"
  /\ Len(call.ev) = 244
  /\ ~SameBytes(framebuffer, ArrFill(255))


\* the driver with draw_iter next to its own methods (clear_display as init runs it)
BufferNext ==
  \/ InitCall
  \/ SetPixel
  \/ DrawIter
  \/ MarkAllDirty
  \/ ClearFramebuffer
  \/ ToggleVcom
  \/ Flush

BufferSpec == Init /\ [][BufferNext]_vars

(***************************************************************************)
(* C35.  set_pixel, draw_iter, mark_all_dirty and clear_framebuffer make   *)
(* no hardware call: nothing is written to the bus, the select line and    *)
(* the polarity bit stay as they are; clear_framebuffer sets every         *)
(* framebuffer bit to 1 and marks all lines dirty without sending          *)
(* anything.  The polarity bit changes only in a clear_display (init's     *)
(* included), toggle_vcom or flush whose hardware calls all succeeded.     *)
(***************************************************************************)
C35_BufferOnly ==
  [][/\ call'.op \in {"set_pixel", "draw_iter", "mark_all_dirty", "clear_framebuffer"} =>
          /\ call'.ev = <<>>
          /\ call'.ret = "ok"
          /\ cs' = cs
          /\ vcom' = vcom
          /\ panel' = panel
          /\ lastMode' = lastMode
     /\ call'.op = "clear_framebuffer" =>
          /\ \A l \in 0..HEIGHT - 1 :
               ArrChunk(framebuffer', l) = [j \in 1..BYTES_PER_LINE |-> 255]
          /\ DirtySet(dirty_lines') = 0..HEIGHT - 1
     /\ vcom' # vcom =>
          /\ call'.op \in {"clear_display", "init", "toggle_vcom", "flush"}
          /\ call'.ret = "ok"
          /\ call'.ev # <<>>
          /\ \A k \in 1..Len(call'.ev) : call'.ev[k].ok
          /\ call'.ev[Len(call'.ev)] = CsSet(0)
    ]_vars

\* clear_framebuffer on a driver whose panel shows a dark pixel: the buffer is white,
\* all lines are dirty, the panel and the polarity bit are as they were
C35_Witness ==
  /\ call.op = "clear_framebuffer"
  /\ vcom
  /\ cs = 0
  /\ DirtySet(dirty_lines) = 0..HEIGHT - 1
  /\ SameBytes(framebuffer, ArrFill(255))
  /\ ~SameBytes(panel, ArrFill(255))


(***************************************************************************)
(* C38.  Baud rate round trip: for every supported rate b the value v that *)
(* set_baud_rate writes to register 0x03F6 is a 16-bit value with          *)
(* v * 100 = b, so read_baud_rate on a device that holds v returns b;      *)
(* read_baud_rate returns 100 times the register value, which never        *)
(* exceeds 6553500 and so fits 32 bits, for every register value.          *)
(***************************************************************************)
C38_BaudRoundTrip ==
  [][/\ (scall'.op = "set_baud_rate" /\ scall'.out.tx # <<>>) =>
          LET v == 256 * scall'.out.tx[1][5] + scall'.out.tx[1][6]
          IN  /\ v \in 0..65535
              /\ v * 100 = scall'.value
              /\ scall'.out.tx[1][5] \in 0..255 /\ scall'.out.tx[1][6] \in 0..255
     /\ (scall'.op = "read_baud_rate" /\ scall'.out.ret.kind = "Ok") =>
          /\ scall'.out.ret.val = 100 * (256 * scall'.out.rx[4] + scall'.out.rx[5])
          /\ scall'.out.ret.val \in 0..6553500
     /\ (/\ scall.op = "set_baud_rate" /\ scall.out.tx # <<>>
         /\ scall'.op = "read_baud_rate" /\ scall'.out.ret.kind = "Ok"
         /\ SubSeq(scall'.out.rx, 4, 5) = SubSeq(scall.out.tx[1], 5, 6)) =>
          scall'.out.ret.val = scall.value
    ]_vars

\* 129000 read back from a device that holds 1290; the largest register value read
\* as 6553500 is another state of the same run
C38_Witness ==
  /\ scall.op = "read_baud_rate"
  /\ Len(scall.out.rx) = 7
  /\ SubSeq(scall.out.rx, 4, 5) = <<5, 10>>
  /\ scall.out.ret = [kind |-> "Ok", val |-> 129000]


(***************************************************************************)
(* CrcSpec: crc16 applied once to a byte sequence: every sequence of at    *)
(* most one byte, the pairs and triples over sampled bytes, and request    *)
(* and response frames without their CRC, the two of the unit tests among  *)
(* them.                                                                   *)
(***************************************************************************)
CrcInputs ==
  {<<>>}
  \cup {<<a>> : a \in 0..255}
  \cup {<<a, b>> : a, b \in {0, 1, 2, 3, 6, 15, 16, 127, 128, 131, 134, 160, 192, 254, 255}}
  \cup {<<a, b, c>> : a, b, c \in {0, 1, 128, 255}}
  \cup {<<ad, fn, rh, rl, vh, vl>> :
          ad \in {1, 253}, fn \in {3, 6}, rh \in {0, 3}, rl \in {1, 5, 244},
          vh \in {0, 3}, vl \in {1, 232}}
  \cup {<<1, 3, 2, hi, lo>> : hi, lo \in {0, 3, 232, 255}}

Crc16 ==
  /\ scall.op = "new"
  /\ \E data \in CrcInputs :
       scall' = [op |-> "crc16", data |-> data, out |-> crc16(data)]
  /\ UNCHANGED address
  /\ UNCHANGED dvars
  /\ UNCHANGED <<net, info_until>>

CrcSpec == FacadeInit /\ [][Crc16]_vars

\* the Modbus CRC taken bit by bit: the message bits go, least significant first,
\* through the shift register with feedback 0xA001; k is the next bit, from 0
RECURSIVE ReferenceCrc(_, _, _)
ReferenceCrc(data, k, crc) ==
  IF k >= 8 * Len(data) THEN crc
  ELSE LET bit  == (data[(k \div 8) + 1] \div (2 ^ (k % 8))) % 2
           next == IF (crc + bit) % 2 = 1 THEN XorBits(crc \div 2, 40961) ELSE crc \div 2
       IN  IF next >= 0 THEN ReferenceCrc(data, k + 1, next) ELSE next

(***************************************************************************)
(* C31.  crc16 is the Modbus CRC of every byte sequence: accumulator       *)
(* 0xFFFF at the start, each byte XORed into its low byte and then 8 times *)
(* shifted right, with 0xA001 XORed in when the bit shifted out is 1; the  *)
(* result fits 16 bits; crc16(01 03 00 01 00 01) = 0xCAD5 and              *)
(* crc16(01 06 00 05 03 E8) = 0x7599.                                      *)
(***************************************************************************)
C31_CrcReference ==
  scall.op = "crc16" =>
    /\ scall.out = ReferenceCrc(scall.data, 0, 65535)
    /\ scall.out \in 0..65535
    /\ scall.data = <<>> => scall.out = 65535
    /\ scall.data = <<1, 3, 0, 1, 0, 1>> => scall.out = 51925
    /\ scall.data = <<1, 6, 0, 5, 3, 232>> => scall.out = 30105

\* the vector of test_crc16_write_installation_height
C31_Witness ==
  /\ scall.op = "crc16"
  /\ scall.data = <<1, 6, 0, 5, 3, 232>>
  /\ scall.out = 30105


\* ---------------------------------------------------------------------------
\* Part 3: the main program (main.rs): the boot-time network wait and the
\* display update of the main loop.

\* the network events sent before wait_for_network is looked at no further
MaxEvents == 4

wait_for_network_any_ip(link_up, event) ==
  CASE event.kind = "LinkUp" -> [link_up |-> TRUE, ret |-> <<>>]
    [] event.kind = "LinkDown" -> [link_up |-> FALSE, ret |-> <<>>]
    [] event.kind = "GotIp" -> [link_up |-> link_up, ret |-> <<event.ip, event.gateway>>]
    [] OTHER -> [link_up |-> link_up, ret |-> <<>>]

\* one turn of the loop of wait_for_network on a received event: link_up
\* afterwards and what is returned (<<>>: nothing, the loop goes on)
wait_for_network(link_up, event) ==
  CASE event.kind = "LinkUp" -> [link_up |-> TRUE, ret |-> <<>>]
    [] event.kind = "LinkDown" -> [link_up |-> FALSE, ret |-> <<>>]
    [] event.kind = "GotIp" /\ link_up ->
         [link_up |-> link_up, ret |-> <<event.ip, event.gateway>>]
    [] event.kind = "GotIp" -> [link_up |-> link_up, ret |-> <<>>]
    [] OTHER -> [link_up |-> link_up, ret |-> <<>>]

\* tx.send(event) of a subscription callback; a send error is ignored
Send(sent) ==
  /\ Len(net.sent) < MaxEvents
  /\ net' = IF sent = <<>> THEN net
            ELSE [net EXCEPT !.queue = @ \o sent, !.sent = @ \o sent]
  /\ UNCHANGED <<dvars, svars, info_until>>

\* the Ethernet subscription: Connected and Disconnected are forwarded, Started and
\* Stopped are not
EthSubscription ==
  \E eth \in {"Started", "Connected", "Disconnected", "Stopped"} :
    Send(CASE eth = "Connected" -> <<[kind |-> "LinkUp", ip |-> 0, gateway |-> 0]>>
           [] eth = "Disconnected" -> <<[kind |-> "LinkDown", ip |-> 0, gateway |-> 0]>>
           [] OTHER -> <<>>)

\* the IP subscription: an assignment is forwarded with its address and gateway, a
\* deassignment without, anything else not at all
IpSubscription ==
  \E ip \in {"DhcpIpAssigned", "DhcpIpDeassigned", "DhcpIp6Assigned"} :
    \E p \in {<<10, 1>>, <<20, 2>>} :
      Send(CASE ip = "DhcpIpAssigned" -> <<[kind |-> "GotIp", ip |-> p[1], gateway |-> p[2]]>>
             [] ip = "DhcpIpDeassigned" -> <<[kind |-> "LostIp", ip |-> 0, gateway |-> 0]>>
             [] OTHER -> <<>>)

\* rx.recv() of wait_for_network hands over the oldest event, and the loop takes
\* one turn; after the return nothing is received here any more
WaitForNetwork ==
  /\ net.ret = <<>>
  /\ net.queue # <<>>
  /\ LET r == wait_for_network(net.link_up, Head(net.queue))
     IN  net' = [net EXCEPT !.queue = Tail(@), !.received = Append(@, Head(net.queue)),
                            !.link_up = r.link_up, !.ret = r.ret]
  /\ UNCHANGED <<dvars, svars, info_until>>

NetNext == EthSubscription \/ IpSubscription \/ WaitForNetwork

NetSpec == FacadeInit /\ [][NetNext]_vars

\* recv blocks only while the channel is empty: a waiting event is taken
NetFairSpec == NetSpec /\ WF_vars(WaitForNetwork)


\* C36: wait_for_network returns only on a GotIp received while the most recent
\* link event received was a LinkUp, and then it returns exactly the address and
\* gateway of that event; a GotIp received while the link is down, and every
\* LostIp, changes nothing but the channel: neither the link state nor the result.
C36_ReturnsOnlyGotIpWhileUp ==
  [][
      LET event == Head(net.queue)
          LinkIsUp == \E i \in 1..Len(net.received) :
                        /\ net.received[i].kind = "LinkUp"
                        /\ \A j \in (i + 1)..Len(net.received) :
                             net.received[j].kind # "LinkDown"
      IN  /\ net'.ret # net.ret =>
               /\ net.ret = <<>>
               /\ net'.received = Append(net.received, event)
               /\ event.kind = "GotIp"
               /\ LinkIsUp
               /\ net'.ret = <<event.ip, event.gateway>>
          /\ (/\ Len(net'.received) > Len(net.received)
              /\ event.kind = "LostIp" \/ (event.kind = "GotIp" /\ ~LinkIsUp)) =>
               /\ net'.ret = <<>>
               /\ net'.link_up = net.link_up
               /\ net'.queue = Tail(net.queue)
  ]_vars

\* an address assigned while the link was down was dropped, the one assigned after
\* the link came up is returned
C36_Witness ==
  /\ net.received = <<[kind |-> "GotIp", ip |-> 10, gateway |-> 1],
                      [kind |-> "LinkUp", ip |-> 0, gateway |-> 0],
                      [kind |-> "GotIp", ip |-> 20, gateway |-> 2]>>
  /\ net.ret = <<20, 2>>

\* C37: once a LinkUp and a GotIp have both been sent on the channel, in either
\* order, and no LinkDown is sent after them, wait_for_network returns in the end.
C37_WaitReturns ==
  LET Settled == \E i, j \in 1..Len(net.sent) :
                   /\ net.sent[i].kind = "LinkUp"
                   /\ net.sent[j].kind = "GotIp"
                   /\ \A k \in 1..Len(net.sent) :
                        (k > i /\ k > j) => net.sent[k].kind # "LinkDown"
  IN  <>[]Settled => <>(net.ret # <<>>)


\* one iteration of the main loop (display and ethernet, mqtt commands included) on
\* the display d: the events try_recv hands over, the number of configuration
\* commands, whether Instant::now() has passed info_until, the pixels the tank and
\* the manometer draw, and the hardware call of the last flush that fails (0: none).
\* Yields the display, the hardware calls made, info_until and "err" when the
\* last flush failed and the loop is left.
RECURSIVE main_loop(_, _, _, _, _, _, _)
main_loop(d, info, events, cmds, expired, pixels, fail) ==
  LET text == <<Px(10, 110, FALSE), Px(11, 110, FALSE)>>
      overlay == flush(draw_iter(clear_framebuffer(d), text), 0)
      Then(ev, rest) == [rest EXCEPT !.ev = ev \o @]
  IN  IF events # <<>>
      THEN CASE Head(events).kind \in {"LinkDown", "LostIp"} ->
                  Then(overlay.ev, main_loop(overlay.self, "Some", Tail(events), cmds,
                                             FALSE, pixels, fail))
             [] Head(events).kind = "GotIp" ->
                  main_loop(mark_all_dirty(clear_framebuffer(d)), "None", Tail(events),
                            cmds, expired, pixels, fail)
             [] OTHER -> main_loop(d, info, Tail(events), cmds, expired, pixels, fail)
      ELSE IF cmds > 0
      THEN Then(overlay.ev, main_loop(overlay.self, "Some", <<>>, cmds - 1, FALSE,
                                      pixels, fail))
      ELSE LET showing_info == info = "Some" /\ ~expired
               d1 == IF info = "Some" /\ expired
                     THEN mark_all_dirty(clear_framebuffer(d))
                     ELSE d
               r == flush(draw_iter(d1, pixels), fail)
           IN  IF showing_info
               THEN [self |-> d, ev |-> <<>>, ret |-> "ok", info_until |-> info]
               ELSE [self |-> r.self, ev |-> r.ev, ret |-> r.ret, info_until |-> "None"]

\* the loop of run turns once; an error of the last flush ends it. Sampled are
\* iterations without an event (the overlay expired or not, either drawing, the
\* last flush failing or not), with one event of each kind, with a link loss
\* followed by a new address, and with one configuration command
MainLoop ==
  /\ pc = "ready"
  /\ LET Ev(k) == [kind |-> k, ip |-> 0, gateway |-> 0]
         ui == <<Px(20, 20, FALSE)>>
         quiet == {<<<<>>, 0, expired, pixels>> :
                     expired \in BOOLEAN,
                     pixels \in {ui, <<Px(20, 20, TRUE), Px(330, 170, FALSE)>>}}
         busy == {<<events, 0, FALSE, ui>> :
                    events \in {<<Ev("LinkUp")>>, <<Ev("LinkDown")>>, <<Ev("LostIp")>>,
                                 <<Ev("GotIp")>>, <<Ev("LinkDown"), Ev("GotIp")>>}}
                 \cup {<<<<>>, 1, FALSE, ui>>}
     IN  \E in \in quiet \cup busy :
           \E fail \in IF in \in quiet
                        THEN FailPoints(Len(main_loop(Self, info_until, in[1], in[2],
                                                      in[3], in[4], 0).ev))
                        ELSE {0} :
             LET r == main_loop(Self, info_until, in[1], in[2], in[3], in[4], fail)
             IN  /\ Do("main_loop", in, r)
                 /\ pc' = IF r.ret = "ok" THEN "ready" ELSE "failed"

\* run: the display is initialised, later the main loop turns
LoopSpec == Init /\ [][InitCall \/ MainLoop]_vars

\* C34: every iteration of the main loop that is not ended by an error puts a
\* transaction on the display's bus, info overlay shown or not.
C34_TransactionEveryIteration ==
  (call.op = "main_loop" /\ call.ret = "ok") => ModeOnBus(call.ev) # -1

====
